---- MODULE Spec2Model ----
(***************************************************************************)
(* Nodio: a graph of typed nodes (AnyArena) with typed relation tables     *)
(* (RelationsTable per relation category), breadth-first traversal, cycle  *)
(* search and the query algebra (QueryFetch / QueryTransform).             *)
(***************************************************************************)
EXTENDS Integers, Sequences, FiniteSets, TLC

\* ------------------------------------------------------------------------
\* Bounds
\* ------------------------------------------------------------------------
\* number of distinct handles (AnyIndex values) the arena can issue
MaxHandles == 3
\* number of mutating Graph calls in one run
MaxOps == 4
\* edges of the second category in the graphs that are traversed
MaxOtherEdges == 1
\* pulls after the end of an iteration that are told apart
MaxEnds == 2
\* "Parent" edges in the graphs that are queried
MaxQueryEdges == 2
\* entities of the burning-trees scenario: two that store a Tree, two a Fire
FireNodes == 4

Handles == 1..MaxHandles
\* relation categories (marker types of lib.rs tests)
Cats == {"Parent", "Child"}
\* node types stored in the arena
Types == {"Tree", "Fire"}
\* AnyIndex carries the type hash of the stored value
TypeOf(h) == IF h % 2 = 1 THEN "Tree" ELSE "Fire"

NoHandle == 0

VARIABLES
    nodes,      \* Graph.nodes: the handles currently valid in the arena
    issued,     \* handles the arena has handed out (never handed out twice)
    relations,  \* Graph.relations: category -> RelationsTable
    last,       \* the most recent Graph call: its name and whether it returned Ok
    ops,        \* number of mutating calls made
    trav,       \* a GraphTraverseIter / GraphTraverseAnyIter and what it yielded
    cyc,        \* a find_cycles iterator and what it yielded
    locks,      \* the arena's per-value access state: readers and writer
    qry,        \* a QueryIter, what it yielded and what the caller still holds
    pf          \* the registries, a Prefab taken of the graph and what it restores to

graphVars == <<nodes, issued, relations>>
callVars == <<last, ops>>
iterVars == <<trav, cyc, locks, qry, pf>>
vars == <<nodes, issued, relations, last, ops, trav, cyc, locks, qry, pf>>

\* ------------------------------------------------------------------------
\* HashMap helpers
\* ------------------------------------------------------------------------
EmptyMap == [k \in {} |-> {}]
\* HashMap::entry(k).or_default() followed by a store of v
Put(m, k, v) == [x \in (DOMAIN m) \cup {k} |-> IF x = k THEN v ELSE m[x]]
\* HashMap::get(k) flattened: the absent key reads as the empty set
SetAt(m, k) == IF k \in DOMAIN m THEN m[k] ELSE {}

EmptyTable == [outgoing |-> EmptyMap, incoming |-> EmptyMap]

\* ------------------------------------------------------------------------
\* RelationsTable (relations.rs)
\* ------------------------------------------------------------------------
\* mutant: inserting an edge that is there takes it out
TableInsertToggle(t, from, to) ==
    IF to \in SetAt(t.outgoing, from)
    THEN [outgoing |-> [t.outgoing EXCEPT ![from] = @ \ {to}],
          incoming |-> [t.incoming EXCEPT ![to] = @ \ {from}]]
    ELSE [outgoing |-> Put(t.outgoing, from, SetAt(t.outgoing, from) \cup {to}),
          incoming |-> Put(t.incoming, to, SetAt(t.incoming, to) \cup {from})]
TableInsert(t, from, to) ==
    [outgoing |-> Put(t.outgoing, from, SetAt(t.outgoing, from) \cup {to}),
     incoming |-> Put(t.incoming, to, SetAt(t.incoming, to) \cup {from})]

TableRemove(t, from, to) ==
    LET o1 == IF from \in DOMAIN t.outgoing
              THEN [t.outgoing EXCEPT ![from] = @ \ {to}]
              ELSE t.outgoing
        o2 == IF to \in DOMAIN o1
              THEN [o1 EXCEPT ![to] = @ \ {from}]
              ELSE o1
    IN  [outgoing |-> o2, incoming |-> t.incoming]

\* mutant: remove_all clears the incoming set of every drained target
TableRemoveAllClearsTargets(t, from) ==
    IF from \in DOMAIN t.outgoing
    THEN LET drained == t.outgoing[from]
         IN  [outgoing |-> [t.outgoing EXCEPT ![from] = {}],
              incoming |-> [k \in DOMAIN t.incoming |->
                              IF k \in drained THEN {} ELSE t.incoming[k]]]
    ELSE t

TableRemoveAll(t, from) ==
    IF from \in DOMAIN t.outgoing
    THEN LET drained == t.outgoing[from]
         IN  [outgoing |-> [t.outgoing EXCEPT ![from] = {}],
              incoming |-> [k \in DOMAIN t.incoming |->
                              IF k \in drained
                              THEN t.incoming[k] \ {from}
                              ELSE t.incoming[k]]]
    ELSE t

TableContains(t, from, to) == to \in SetAt(t.outgoing, from)
TableOutgoing(t, from) == SetAt(t.outgoing, from)
TableIncoming(t, to) == SetAt(t.incoming, to)
TableIter(t) == {<<from, to>> \in Handles \X Handles : to \in SetAt(t.outgoing, from)}

\* ------------------------------------------------------------------------
\* Graph lookups (graph.rs)
\* ------------------------------------------------------------------------
\* self.relations.entry(TypeHash::of::<T>()).or_default()
TableOrDefault(rel, c) == IF c \in DOMAIN rel THEN rel[c] ELSE EmptyTable

Contains(index) == index \in nodes
Is(T, index) == index \in nodes /\ TypeOf(index) = T

AreRelatedIn(rel, c, from, to) ==
    IF c \in DOMAIN rel THEN TableContains(rel[c], from, to) ELSE FALSE
AreRelated(c, from, to) == AreRelatedIn(relations, c, from, to)

OutgoingRawIn(rel, from, c) ==
    IF c \in DOMAIN rel THEN TableOutgoing(rel[c], from) ELSE {}
RelationsOutgoingRaw(from, c) == OutgoingRawIn(relations, from, c)
RelationsOutgoing(c, from) == RelationsOutgoingRaw(from, c)
RelationsOutgoingAny(from) ==
    UNION {TableOutgoing(relations[c], from) : c \in DOMAIN relations}

IncommingRawIn(rel, to, c) ==
    IF c \in DOMAIN rel THEN TableIncoming(rel[c], to) ELSE {}
RelationsIncommingRaw(to, c) == IncommingRawIn(relations, to, c)
RelationsIncomming(c, to) == RelationsIncommingRaw(to, c)
RelationsIncommingAny(to) ==
    UNION {TableIncoming(relations[c], to) : c \in DOMAIN relations}

\* ------------------------------------------------------------------------
\* Graph mutations (graph.rs), as functions of the relation map
\* ------------------------------------------------------------------------
\* mutant: relate inserts the edge into the table of every category
RelateInEveryTable(rel, c, from, to) ==
    [x \in (DOMAIN rel) \cup {c} |-> TableInsert(TableOrDefault(rel, x), from, to)]
RelateIn(rel, c, from, to) == Put(rel, c, TableInsert(TableOrDefault(rel, c), from, to))
UnrelateIn(rel, c, from, to) == Put(rel, c, TableRemove(TableOrDefault(rel, c), from, to))
\* mutant: unrelate_all drops the table of a category it leaves without edges
UnrelateAllInDropsEmpty(rel, c, from) ==
    LET t == TableRemoveAll(TableOrDefault(rel, c), from)
    IN  IF TableIter(t) = {} THEN [x \in (DOMAIN rel) \ {c} |-> rel[x]] ELSE Put(rel, c, t)
UnrelateAllIn(rel, c, from) == Put(rel, c, TableRemoveAll(TableOrDefault(rel, c), from))
RelatePairIn(rel, i, o, from, to) == RelateIn(RelateIn(rel, o, from, to), i, to, from)
\* mutant: unrelate_pair removes the forward edge only
UnrelatePairForwardOnly(rel, i, o, from, to) == UnrelateIn(rel, o, from, to)
UnrelatePairIn(rel, i, o, from, to) == UnrelateIn(UnrelateIn(rel, o, from, to), i, to, from)
RemoveAllIn(rel, index) == [c \in DOMAIN rel |-> TableRemoveAll(rel[c], index)]

Call(op, ok) == [op |-> op, ok |-> ok]

\* ------------------------------------------------------------------------
\* GraphTraverseIter / GraphTraverseAnyIter (graph.rs)
\* ------------------------------------------------------------------------
AnyCat == "any"
MaxOut == MaxHandles + 1

\* the orders in which a HashSet may hand out its elements
Perms(S) ==
    {s \in [1..Cardinality(S) -> S] : \A i, j \in 1..Cardinality(S) : i # j => s[i] # s[j]}

\* relations_outgoing_raw(index, type_hash) as an iteration
OutgoingOrders(index, c) == Perms(RelationsOutgoingRaw(index, c))

\* mutant: find without the filter on the stored type
FindUnfiltered(R, T, from) == OutgoingOrders(from, R)
\* Graph::find::<R, T>(from): relations_outgoing::<R>(from).filter(is::<T>),
\* every sequence it can yield
Find(R, T, from) ==
    LET IsT(index) == Is(T, index)
    IN  {SelectSeq(p, IsT) : p \in OutgoingOrders(from, R)}

\* relations_outgoing_any(index): the tables in HashMap order, each table's
\* set in its own order, one after the other
RECURSIVE OutgoingAnyOrdersOver(_, _)
OutgoingAnyOrdersOver(index, cs) ==
    IF cs = {} THEN {<<>>}
    ELSE UNION {{first \o rest : first \in Perms(TableOutgoing(relations[c], index)),
                                 rest \in OutgoingAnyOrdersOver(index, cs \ {c})}
                : c \in cs}
OutgoingAnyOrders(index) == OutgoingAnyOrdersOver(index, DOMAIN relations)

\* GraphTraverseIter::new_raw / GraphTraverseAnyIter::new
TraverseNew(index, type_hash) ==
    [type_hash |-> type_hash, stack |-> <<index>>, visited |-> {}]

\* mutant: a handle is marked visited when it is pushed, not when it is popped
RECURSIVE TraverseNextMarkOnPush(_)
TraverseNextMarkOnPush(it) ==
    IF it.stack = <<>>
    THEN {[val |-> NoHandle, it |-> it]}
    ELSE LET index == Head(it.stack)
             popped == [it EXCEPT !.stack = Tail(it.stack)]
         IN  IF index \in it.visited
             THEN TraverseNextMarkOnPush(popped)
             ELSE {[val |-> index,
                    it |-> [popped EXCEPT
                              !.visited = @ \cup {index} \cup {pushed[i] : i \in 1..Len(pushed)},
                              !.stack = @ \o pushed]] :
                   pushed \in (IF it.type_hash = AnyCat
                               THEN OutgoingAnyOrders(index)
                               ELSE OutgoingOrders(index, it.type_hash))}

\* mutant: next() pops the handle pushed last (pop_back), a depth-first walk
RECURSIVE TraverseNextPopBack(_)
TraverseNextPopBack(it) ==
    IF it.stack = <<>>
    THEN {[val |-> NoHandle, it |-> it]}
    ELSE LET index == it.stack[Len(it.stack)]
             popped == [it EXCEPT !.stack = SubSeq(it.stack, 1, Len(it.stack) - 1)]
         IN  IF index \in it.visited
             THEN TraverseNextPopBack(popped)
             ELSE {[val |-> index,
                    it |-> [popped EXCEPT !.visited = @ \cup {index},
                                          !.stack = @ \o pushed]] :
                   pushed \in (IF it.type_hash = AnyCat
                               THEN OutgoingAnyOrders(index)
                               ELSE OutgoingOrders(index, it.type_hash))}

\* GraphTraverseIter::next / GraphTraverseAnyIter::next: every outcome
\* [val, it] the call can have; val = NoHandle is None
RECURSIVE TraverseNext(_)
TraverseNext(it) ==
    IF it.stack = <<>>
    THEN {[val |-> NoHandle, it |-> it]}
    ELSE LET index == Head(it.stack)
             popped == [it EXCEPT !.stack = Tail(it.stack)]
         IN  IF index \in it.visited
             THEN TraverseNext(popped)
             ELSE {[val |-> index,
                    it |-> [popped EXCEPT !.visited = @ \cup {index},
                                          !.stack = @ \o pushed]] :
                   pushed \in (IF it.type_hash = AnyCat
                               THEN OutgoingAnyOrders(index)
                               ELSE OutgoingOrders(index, it.type_hash))}

NoTraverse ==
    [it |-> TraverseNew(NoHandle, AnyCat), start |-> NoHandle, out |-> <<>>,
     ended |-> FALSE, ends |-> 0]

\* relate calls for every edge of a set, in any order (the result is the same)
RECURSIVE RelateAllIn(_, _, _)
RelateAllIn(rel, c, edges) ==
    IF edges = {} THEN rel
    ELSE LET e == CHOOSE e \in edges : TRUE
         IN  RelateAllIn(RelateIn(rel, c, e[1], e[2]), c, edges \ {e})

Edges == Handles \X Handles
\* the graphs that are traversed: any "Parent" edges and a few "Child" edges,
\* built by relate calls on an empty Graph holding every handle
BuiltGraphs ==
    {RelateAllIn(RelateAllIn([c \in {} |-> EmptyTable], "Parent", eP), "Child", eC) :
        eP \in SUBSET Edges,
        eC \in {e \in SUBSET Edges : Cardinality(e) <= MaxOtherEdges}}

\* ------------------------------------------------------------------------
\* Arena access guards (Graph::read / Graph::write)
\* ------------------------------------------------------------------------
None == <<>>
Some(v) == <<v>>

NoLocks == [h \in Handles \cup (1..FireNodes) |-> [r |-> 0, w |-> FALSE]]
\* Graph::read::<T>(index).ok(): the handle is valid, holds a T and has no writer
CanRead(lk, T, index) == Is(T, index) /\ ~lk[index].w
\* Graph::write::<T>(index).ok(): as read, and no reader either
CanWrite(lk, T, index) == Is(T, index) /\ ~lk[index].w /\ lk[index].r = 0
LockRead(lk, index) == [lk EXCEPT ![index].r = @ + 1]
LockWrite(lk, index) == [lk EXCEPT ![index].w = TRUE]

\* ------------------------------------------------------------------------
\* Query values (QueryFetch::Value / QueryTransform::Output)
\* ------------------------------------------------------------------------
VUnit == [k |-> "unit"]
VIndex(h) == [k |-> "index", h |-> h]
VRead(h) == [k |-> "read", h |-> h]
VWrite(h) == [k |-> "write", h |-> h]
VNone == [k |-> "none"]
VSome(v) == [k |-> "some", v |-> v]
VTuple(vs) == [k |-> "tuple", vs |-> vs]

\* dropping a value gives back the accesses it holds
RECURSIVE DropValue(_, _)
RECURSIVE DropValues(_, _)
DropValue(v, lk) ==
    CASE v.k = "read" -> [lk EXCEPT ![v.h].r = @ - 1]
      [] v.k = "write" -> [lk EXCEPT ![v.h].w = FALSE]
      [] v.k = "some" -> DropValue(v.v, lk)
      [] v.k = "tuple" -> DropValues(v.vs, lk)
      [] OTHER -> lk
DropValues(vs, lk) ==
    IF vs = <<>> THEN lk ELSE DropValues(Tail(vs), DropValue(Head(vs), lk))

RECURSIVE HoldsAccess(_)
HoldsAccess(v) ==
    CASE v.k \in {"read", "write"} -> TRUE
      [] v.k = "some" -> HoldsAccess(v.v)
      [] v.k = "tuple" -> \E i \in 1..Len(v.vs) : HoldsAccess(v.vs[i])
      [] OTHER -> FALSE

\* ------------------------------------------------------------------------
\* Fetch and Transform types (query.rs), as terms
\* ------------------------------------------------------------------------
FUnit == [k |-> "unit"]
FIndex == [k |-> "index"]
FRelated(c, t) == [k |-> "related", c |-> c, t |-> t]
FTraverse(c, t) == [k |-> "traverse", c |-> c, t |-> t]
FTuple(fs) == [k |-> "tuple", fs |-> fs]
TId == [k |-> "id"]
TNode(T) == [k |-> "node", T |-> T]
TIs(T) == [k |-> "is", T |-> T]
TIsNot(T) == [k |-> "isnot", T |-> T]
TRead(T) == [k |-> "read", T |-> T]
TWrite(T) == [k |-> "write", T |-> T]
TOptRead(T) == [k |-> "optread", T |-> T]
TOptWrite(T) == [k |-> "optwrite", T |-> T]
TLimit(n, t) == [k |-> "limit", n |-> n, t |-> t]
TSingle(t) == TLimit(1, t)
TQuery(t, f) == [k |-> "query", t |-> t, f |-> f]

\* ------------------------------------------------------------------------
\* Iterators the transforms return
\* ------------------------------------------------------------------------
\* Option::into_iter / iter::once
Once(item) == [k |-> "once", item |-> item]
Result(val, st, lk) == [val |-> val, st |-> st, lk |-> lk]

\* mutant: the optional accessors give nothing when the access is refused
RECURSIVE TransformOptionOmits(_, _, _)
TransformOptionOmits(t, input, lk) ==
    CASE t.k = "id" -> [st |-> Once(Some(VIndex(input))), lk |-> lk]
      [] t.k = "node" ->
            [st |-> Once(IF Is(t.T, input) THEN Some(VIndex(input)) ELSE None), lk |-> lk]
      [] t.k = "is" ->
            [st |-> Once(IF Is(t.T, input) THEN Some(VUnit) ELSE None), lk |-> lk]
      [] t.k = "isnot" ->
            [st |-> Once(IF ~Is(t.T, input) THEN Some(VUnit) ELSE None), lk |-> lk]
      [] t.k = "read" ->
            IF CanRead(lk, t.T, input)
            THEN [st |-> Once(Some(VRead(input))), lk |-> LockRead(lk, input)]
            ELSE [st |-> Once(None), lk |-> lk]
      [] t.k = "write" ->
            IF CanWrite(lk, t.T, input)
            THEN [st |-> Once(Some(VWrite(input))), lk |-> LockWrite(lk, input)]
            ELSE [st |-> Once(None), lk |-> lk]
      [] t.k = "optread" ->
            IF CanRead(lk, t.T, input)
            THEN [st |-> Once(Some(VSome(VRead(input)))), lk |-> LockRead(lk, input)]
            ELSE [st |-> Once(None), lk |-> lk]
      [] t.k = "optwrite" ->
            IF CanWrite(lk, t.T, input)
            THEN [st |-> Once(Some(VSome(VWrite(input)))), lk |-> LockWrite(lk, input)]
            ELSE [st |-> Once(None), lk |-> lk]
      [] t.k = "limit" ->
            LET r == TransformOptionOmits(t.t, input, lk)
            IN  [st |-> [k |-> "take", n |-> t.n, inner |-> r.st], lk |-> r.lk]
      [] t.k = "query" ->
            LET r == TransformOptionOmits(t.t, input, lk)
            IN  [st |-> [k |-> "qflat", src |-> r.st, f |-> t.f, cur |-> None], lk |-> r.lk]

\* QueryTransform::transform(graph, input): the iterator it returns and the
\* access state after the call (read / write are taken inside the call)
RECURSIVE Transform(_, _, _)
Transform(t, input, lk) ==
    CASE t.k = "id" -> [st |-> Once(Some(VIndex(input))), lk |-> lk]
      [] t.k = "node" ->
            [st |-> Once(IF Is(t.T, input) THEN Some(VIndex(input)) ELSE None), lk |-> lk]
      [] t.k = "is" ->
            [st |-> Once(IF Is(t.T, input) THEN Some(VUnit) ELSE None), lk |-> lk]
      [] t.k = "isnot" ->
            [st |-> Once(IF ~Is(t.T, input) THEN Some(VUnit) ELSE None), lk |-> lk]
      [] t.k = "read" ->
            IF CanRead(lk, t.T, input)
            THEN [st |-> Once(Some(VRead(input))), lk |-> LockRead(lk, input)]
            ELSE [st |-> Once(None), lk |-> lk]
      [] t.k = "write" ->
            IF CanWrite(lk, t.T, input)
            THEN [st |-> Once(Some(VWrite(input))), lk |-> LockWrite(lk, input)]
            ELSE [st |-> Once(None), lk |-> lk]
      [] t.k = "optread" ->
            IF CanRead(lk, t.T, input)
            THEN [st |-> Once(Some(VSome(VRead(input)))), lk |-> LockRead(lk, input)]
            ELSE [st |-> Once(Some(VNone)), lk |-> lk]
      [] t.k = "optwrite" ->
            IF CanWrite(lk, t.T, input)
            THEN [st |-> Once(Some(VSome(VWrite(input)))), lk |-> LockWrite(lk, input)]
            ELSE [st |-> Once(Some(VNone)), lk |-> lk]
      [] t.k = "limit" ->
            LET r == Transform(t.t, input, lk)
            IN  [st |-> [k |-> "take", n |-> t.n, inner |-> r.st], lk |-> r.lk]
      [] t.k = "query" ->
            LET r == Transform(t.t, input, lk)
            IN  [st |-> [k |-> "qflat", src |-> r.st, f |-> t.f, cur |-> None], lk |-> r.lk]

\* the handles a Related / Traverse access still has to visit
SeqSource(items) == [k |-> "seq", items |-> items]
TravSource(it) == [k |-> "trav", it |-> it]
\* next() of relations_outgoing / relations_traverse inside the access
SourceNext(src) ==
    IF src.k = "seq"
    THEN IF src.items = <<>>
         THEN {[val |-> None, st |-> src]}
         ELSE {[val |-> Some(Head(src.items)), st |-> SeqSource(Tail(src.items))]}
    ELSE {[val |-> IF o.val = NoHandle THEN None ELSE Some(o.val), st |-> TravSource(o.it)]
          : o \in TraverseNext(src.it)}

\* QueryFetch::access(graph, index): every access the call can build (the
\* HashSet order of the neighbours is fixed when the iterator is made)
RECURSIVE Access(_, _)
RECURSIVE TupleAccess(_, _)
\* mutant: Traverse walks the direct neighbours only, as Related does
AccessTraverseAsRelated(f, index) ==
    CASE f.k = "unit" -> {[k |-> "unit"]}
      [] f.k = "index" -> {[k |-> "index", h |-> index]}
      [] f.k \in {"related", "traverse"} ->
            {[k |-> "flat", src |-> SeqSource(p), t |-> f.t, cur |-> None]
             : p \in OutgoingOrders(index, f.c)}
      [] f.k = "tuple" -> {[k |-> "tuple", as |-> as] : as \in TupleAccess(f.fs, index)}
Access(f, index) ==
    CASE f.k = "unit" -> {[k |-> "unit"]}
      [] f.k = "index" -> {[k |-> "index", h |-> index]}
      [] f.k = "related" ->
            {[k |-> "flat", src |-> SeqSource(p), t |-> f.t, cur |-> None]
             : p \in OutgoingOrders(index, f.c)}
      [] f.k = "traverse" ->
            {[k |-> "flat", src |-> TravSource(TraverseNew(index, f.c)), t |-> f.t,
                             cur |-> None]}
      [] f.k = "tuple" -> {[k |-> "tuple", as |-> as] : as \in TupleAccess(f.fs, index)}
TupleAccess(fs, index) ==
    IF fs = <<>> THEN {<<>>}
    ELSE {<<a>> \o rest : a \in Access(Head(fs), index), rest \in TupleAccess(Tail(fs), index)}

\* dropping an iterator or an access gives back what its pending items hold
RECURSIVE DropIter(_, _)
RECURSIVE DropAccess(_, _)
RECURSIVE DropAccesses(_, _)
DropIter(st, lk) ==
    CASE st.k = "once" -> IF st.item = None THEN lk ELSE DropValue(st.item[1], lk)
      [] st.k = "take" -> DropIter(st.inner, lk)
      [] st.k = "qflat" ->
            LET l1 == DropIter(st.src, lk)
            IN  IF st.cur = None THEN l1 ELSE DropAccess(st.cur[1], l1)
DropAccess(a, lk) ==
    CASE a.k = "flat" -> IF a.cur = None THEN lk ELSE DropIter(a.cur[1], lk)
      [] a.k = "tuple" -> DropAccesses(a.as, lk)
      [] OTHER -> lk
DropAccesses(as, lk) ==
    IF as = <<>> THEN lk ELSE DropAccesses(Tail(as), DropAccess(Head(as), lk))

\* QueryFetch for (): fetch returns Some(()) and keeps no state
UnitFetch(a, lk) == {Result(Some(VUnit), a, lk)}
\* QueryFetch for AnyIndex: fetch returns Some(*access)
IndexFetch(a, lk) == {Result(Some(VIndex(a.h)), a, lk)}

RECURSIVE IterNext(_, _)
RECURSIVE Fetch(_, _)
RECURSIVE TupleFetch(_, _, _, _)
\* mutant: a tuple fetch stops asking its components at the first None but
\* still yields what it has
RECURSIVE TupleFetchPartial(_, _, _, _)
TupleFetchPartial(as, i, got, lk) ==
    IF i > Len(as)
    THEN {Result(Some(VTuple(got)), [k |-> "tuple", as |-> as], lk)}
    ELSE UNION {IF o.val = None
                THEN {Result(IF got = <<>> THEN None ELSE Some(VTuple(got)),
                             [k |-> "tuple", as |-> [as EXCEPT ![i] = o.st]], o.lk)}
                ELSE TupleFetchPartial([as EXCEPT ![i] = o.st], i + 1,
                                       Append(got, o.val[1]), o.lk)
                : o \in Fetch(as[i], lk)}

\* mutant: Take that lets one more item through
TakeNextOneMore(st, lk) ==
    IF st.n < 0 THEN {Result(None, st, lk)}
    ELSE {Result(o.val, [st EXCEPT !.n = @ - 1, !.inner = o.st], o.lk)
          : o \in IterNext(st.inner, lk)}
\* Take::next of `transform(graph, input).take(COUNT)`
TakeNext(st, lk) ==
    IF st.n = 0 THEN {Result(None, st, lk)}
    ELSE {Result(o.val, [st EXCEPT !.n = @ - 1, !.inner = o.st], o.lk)
          : o \in IterNext(st.inner, lk)}

\* mutant: Query ends when the query of one handle ends, without going on to
\* the next handle of its transform
IterNextEndsWithInner(st, lk) ==
    CASE st.k = "once" ->
            IF st.item = None THEN {Result(None, st, lk)}
            ELSE {Result(st.item, Once(None), lk)}
      [] st.k = "take" -> TakeNext(st, lk)
      [] st.k = "qflat" ->
            IF st.cur # None
            THEN UNION {IF o.val # None
                        THEN {Result(o.val, [st EXCEPT !.cur = Some(o.st)], o.lk)}
                        ELSE {Result(None, [st EXCEPT !.cur = None], DropAccess(o.st, o.lk))}
                        : o \in Fetch(st.cur[1], lk)}
            ELSE UNION {IF o.val = None
                        THEN {Result(None, [st EXCEPT !.src = o.st], o.lk)}
                        ELSE UNION {IterNext([st EXCEPT !.src = o.st, !.cur = Some(a)], o.lk)
                                    : a \in Access(st.f, o.val[1].h)}
                        : o \in IterNext(st.src, lk)}

\* next() of the iterator a transform returned
IterNext(st, lk) ==
    CASE st.k = "once" ->
            IF st.item = None THEN {Result(None, st, lk)}
            ELSE {Result(st.item, Once(None), lk)}
      [] st.k = "take" -> TakeNext(st, lk)
      [] st.k = "qflat" ->
            \* FlatMap::next over graph.query::<Fetch>(index)
            IF st.cur # None
            THEN UNION {IF o.val # None
                        THEN {Result(o.val, [st EXCEPT !.cur = Some(o.st)], o.lk)}
                        ELSE IterNext([st EXCEPT !.cur = None], DropAccess(o.st, o.lk))
                        : o \in Fetch(st.cur[1], lk)}
            ELSE UNION {IF o.val = None
                        THEN {Result(None, [st EXCEPT !.src = o.st], o.lk)}
                        ELSE UNION {IterNext([st EXCEPT !.src = o.st, !.cur = Some(a)], o.lk)
                                    : a \in Access(st.f, o.val[1].h)}
                        : o \in IterNext(st.src, lk)}

\* mutant: a tuple fetch asks every component on every pull, also after one of
\* them gave None
RECURSIVE TupleFetchAsksAll(_, _, _, _)
TupleFetchAsksAll(as, i, got, lk) ==
    IF i > Len(as)
    THEN {IF Len(got) = Len(as)
          THEN Result(Some(VTuple(got)), [k |-> "tuple", as |-> as], lk)
          ELSE Result(None, [k |-> "tuple", as |-> as], DropValues(got, lk))}
    ELSE UNION {TupleFetchAsksAll([as EXCEPT ![i] = o.st], i + 1,
                                  IF o.val = None THEN got ELSE Append(got, o.val[1]), o.lk)
                : o \in Fetch(as[i], lk)}

\* mutant: a component that is exhausted ends the pull and is then skipped:
\* the later pulls go on with the components that are left
RECURSIVE TupleFetchSkipsExhausted(_, _, _, _)
TupleFetchSkipsExhausted(as, i, got, lk) ==
    IF i > Len(as)
    THEN {Result(Some(VTuple(got)), [k |-> "tuple", as |-> as], lk)}
    ELSE UNION {IF o.val = None
                THEN {Result(None, [k |-> "tuple",
                                    as |-> SubSeq(as, 1, i - 1) \o SubSeq(as, i + 1, Len(as))],
                             DropValues(got, o.lk))}
                ELSE TupleFetchSkipsExhausted([as EXCEPT ![i] = o.st], i + 1,
                                              Append(got, o.val[1]), o.lk)
                : o \in Fetch(as[i], lk)}

\* impl_fetch_tuple fetch: `Some((A::fetch(a)?, B::fetch(b)?, ...))`
TupleFetch(as, i, got, lk) ==
    IF i > Len(as)
    THEN {Result(Some(VTuple(got)), [k |-> "tuple", as |-> as], lk)}
    ELSE UNION {IF o.val = None
                THEN {Result(None, [k |-> "tuple", as |-> [as EXCEPT ![i] = o.st]],
                             DropValues(got, o.lk))}
                ELSE TupleFetch([as EXCEPT ![i] = o.st], i + 1, Append(got, o.val[1]), o.lk)
                : o \in Fetch(as[i], lk)}

\* mutant: Related / Traverse end at the first handle whose transform gives
\* nothing (map_while in place of flat_map)
FetchEndsAtFailure(a, lk) ==
    CASE a.k = "unit" -> UnitFetch(a, lk)
      [] a.k = "index" -> IndexFetch(a, lk)
      [] a.k = "flat" ->
            IF a.cur # None
            THEN UNION {IF o.val # None
                        THEN {Result(o.val, [a EXCEPT !.cur = Some(o.st)], o.lk)}
                        ELSE {Result(None, [a EXCEPT !.cur = None], DropIter(o.st, o.lk))}
                        : o \in IterNext(a.cur[1], lk)}
            ELSE UNION {IF s.val = None
                        THEN {Result(None, [a EXCEPT !.src = s.st], lk)}
                        ELSE LET r == Transform(a.t, s.val[1], lk)
                             IN  Fetch([a EXCEPT !.src = s.st, !.cur = Some(r.st)], r.lk)
                        : s \in SourceNext(a.src)}
      [] a.k = "tuple" -> TupleFetch(a.as, 1, <<>>, lk)

\* QueryFetch::fetch(access): every outcome [val, st, lk] the call can have
Fetch(a, lk) ==
    CASE a.k = "unit" -> UnitFetch(a, lk)
      [] a.k = "index" -> IndexFetch(a, lk)
      [] a.k = "flat" ->
            \* FlatMap::next over Transform::transform(graph, index)
            IF a.cur # None
            THEN UNION {IF o.val # None
                        THEN {Result(o.val, [a EXCEPT !.cur = Some(o.st)], o.lk)}
                        ELSE Fetch([a EXCEPT !.cur = None], DropIter(o.st, o.lk))
                        : o \in IterNext(a.cur[1], lk)}
            ELSE UNION {IF s.val = None
                        THEN {Result(None, [a EXCEPT !.src = s.st], lk)}
                        ELSE LET r == Transform(a.t, s.val[1], lk)
                             IN  Fetch([a EXCEPT !.src = s.st, !.cur = Some(r.st)], r.lk)
                        : s \in SourceNext(a.src)}
      [] a.k = "tuple" -> TupleFetch(a.as, 1, <<>>, lk)

\* ------------------------------------------------------------------------
\* QueryIter (Graph::query)
\* ------------------------------------------------------------------------
\* values of one query that are recorded
QueryCap == MaxHandles + 2

NoQuery == [fetch |-> FUnit, root |-> NoHandle, start |-> [k |-> "unit"],
            access |-> [k |-> "unit"], out |-> <<>>, pulls |-> 0, ended |-> FALSE,
            held |-> <<>>]

\* the Registry and the SerializationRegistry hold every type and category;
\* no Prefab has been taken
Names == Types \cup Cats
NoGraph == [nodes |-> {}, relations |-> [c \in {} |-> EmptyTable]]
EmptyPrefab == [nodes |-> [T \in {} |-> <<>>], relations |-> [c \in {} |-> EmptyTable]]
NoPrefab == [stage |-> "none", registry |-> Names, serialization |-> Types,
             prefab |-> EmptyPrefab, edits |-> 0, graph |-> NoGraph,
             mappings |-> EmptyMap, error |-> "none"]

\* the transforms that are no Limit and no Query
SimpleTransforms ==
    {TId} \cup UNION {{TNode(T), TIs(T), TIsNot(T), TRead(T), TWrite(T),
                       TOptRead(T), TOptWrite(T)} : T \in Types}
PairTransforms == {TId, TRead("Tree"), TWrite("Tree"), TOptWrite("Tree")}
PairFetches ==
    {FTuple(<<FRelated("Parent", t1), FRelated("Parent", t2)>>) : t1, t2 \in PairTransforms}
    \cup {FTuple(<<FRelated("Parent", t1), FRelated("Child", TId)>>) : t1 \in PairTransforms}
\* test_graph's `Related<Child, Query<Node<Tree>, (AnyIndex, Related<Effect,
\* Is<Fire>>)>>`, with "Parent" as the category that leads to the trees and
\* "Child" as the category of the effects
FireFetch ==
    FRelated("Parent", TQuery(TNode("Tree"),
                              FTuple(<<FIndex, FRelated("Child", TIs("Fire"))>>)))
NestedFetches ==
    {FireFetch,
     FRelated("Parent", TQuery(TId, FIndex)),
     FRelated("Parent", TQuery(TId, FRelated("Parent", TWrite("Tree")))),
     FTraverse("Parent", TQuery(TId, FRelated("Child", TRead("Fire")))),
     FRelated("Parent", TSingle(TId)),
     FRelated("Parent", TQuery(TNode("Tree"), FRelated("Parent", TRead("Tree")))),
     FRelated("Parent", TQuery(TQuery(TId, FRelated("Parent", TId)), FRelated("Parent", TId)))}
    \cup {FRelated("Parent", TLimit(n, TQuery(TId, FRelated("Parent", TId)))) : n \in 0..2}
\* the Fetch types that are queried
QueryFetches ==
    {FUnit, FIndex}
    \cup {FRelated("Parent", t) : t \in SimpleTransforms}
    \cup {FRelated("Child", TId)}
    \cup {FTraverse("Parent", t) : t \in {TId, TNode("Tree"), TRead("Tree")}}
    \cup PairFetches
    \cup {FTuple(<<FUnit, FIndex>>),
          FTuple(<<FIndex, FRelated("Parent", TId)>>),
          FTuple(<<FRelated("Parent", TId), FUnit>>),
          FTuple(<<FIndex, FRelated("Parent", TWrite("Tree")),
                   FRelated("Child", TIs("Fire"))>>)}
    \cup NestedFetches

\* the roots that are queried: one that stores a Tree, one that stores a Fire
QueryRoots == {h \in Handles : h <= Cardinality(Types)}
\* the graphs that are queried
QueryGraphs ==
    {RelateAllIn(RelateAllIn([c \in {} |-> EmptyTable], "Parent", eP), "Child", eC)
     : eP \in {e \in SUBSET Edges : Cardinality(e) <= MaxQueryEdges},
       eC \in {e \in SUBSET Edges : Cardinality(e) <= MaxOtherEdges}}

\* ------------------------------------------------------------------------
\* Graph::find_cycle / Graph::find_cycles (graph.rs)
\* ------------------------------------------------------------------------
\* the entities of test_cycles: a, b, c, d
ScenarioNodes == 4
\* walk's result: the sets and the path it leaves behind and the position it
\* returns (0 is None)
WalkResult(visited, path, found) == [visited |-> visited, path |-> path, found |-> found]

\* path.iter().position(|item| *item == target), 0 when absent
Position(path, target) ==
    IF \E i \in 1..Len(path) : path[i] = target
    THEN CHOOSE i \in 1..Len(path) : path[i] = target /\ \A j \in 1..(i - 1) : path[j] # target
    ELSE 0

RECURSIVE Walk(_, _, _, _)
RECURSIVE WalkTargets(_, _, _, _)
\* mutant: the path is not popped when a walk finds nothing
RECURSIVE WalkTargetsNoPop(_, _, _, _)
WalkTargetsNoPop(c, visited, path, targets) ==
    IF targets = {}
    THEN {WalkResult(visited, path, 0)}
    ELSE UNION {
           IF Position(path, target) # 0
           THEN {WalkResult(visited, path, Position(path, target))}
           ELSE UNION {IF r.found # 0 THEN {r}
                       ELSE WalkTargetsNoPop(c, r.visited, r.path, targets \ {target})
                       : r \in Walk(c, visited, path, target)}
           : target \in targets}

\* the `for target in graph.relations_outgoing::<T>(source)` loop of walk, with
\* the targets still to come, and the pop after it
WalkTargets(c, visited, path, targets) ==
    IF targets = {}
    THEN {WalkResult(visited, SubSeq(path, 1, Len(path) - 1), 0)}
    ELSE UNION {
           IF Position(path, target) # 0
           THEN {WalkResult(visited, path, Position(path, target))}
           ELSE UNION {IF r.found # 0 THEN {r}
                       ELSE WalkTargets(c, r.visited, r.path, targets \ {target})
                       : r \in Walk(c, visited, path, target)}
           : target \in targets}

\* find_cycle's inner fn walk
Walk(c, visited, path, source) ==
    IF source \in visited
    THEN {WalkResult(visited, path, 0)}
    ELSE WalkTargets(c, visited \cup {source}, Append(path, source),
                     RelationsOutgoing(c, source))

\* mutant: find_cycle returns the whole path, with the handles walked before
\* the cycle
FindCycleWholePath(c, index) ==
    {r.path : r \in Walk(c, {}, <<>>, index)}

\* Graph::find_cycle: every result the call can have
FindCycle(c, index) ==
    {IF r.found # 0 THEN SubSeq(r.path, r.found, Len(r.path)) ELSE r.path
     : r \in Walk(c, {}, <<>>, index)}

\* next() of the iterator find_cycles returns: the arena's indices in the
\* arena's order, skipping those whose find_cycle is empty; val = <<>> is None
RECURSIVE FindCyclesNext(_, _)
FindCyclesNext(c, pending) ==
    IF pending = {}
    THEN {[val |-> <<>>, pending |-> {}]}
    ELSE UNION {UNION {IF cycle # <<>>
                       THEN {[val |-> cycle, pending |-> pending \ {index}]}
                       ELSE FindCyclesNext(c, pending \ {index})
                       : cycle \in FindCycle(c, index)}
                : index \in pending}

NoCycles == [c |-> AnyCat, pending |-> {}, out |-> <<>>, ended |-> FALSE]

\* test_cycles: a -> b, a -> c, b -> d, c -> d, and then d -> a
ScenarioDagEdges == {<<1, 2>>, <<1, 3>>, <<2, 4>>, <<3, 4>>}
ScenarioCycleEdges == ScenarioDagEdges \cup {<<4, 1>>}
ScenarioDag == RelateAllIn([c \in {} |-> EmptyTable], "Parent", ScenarioDagEdges)
ScenarioCycle == RelateAllIn([c \in {} |-> EmptyTable], "Parent", ScenarioCycleEdges)

\* find_cycles::<C>() on a Graph that holds any of the handles and any edges
\* (relate takes any handles), or on one of the graphs of test_cycles
InitCycles ==
    /\ \/ /\ relations \in BuiltGraphs
          /\ issued = Handles
          /\ nodes \in SUBSET Handles
       \/ /\ relations \in {ScenarioDag, ScenarioCycle}
          /\ issued = 1..ScenarioNodes
          /\ nodes = 1..ScenarioNodes
    /\ last = Call("relate", TRUE)
    /\ ops = MaxOps
    /\ trav = NoTraverse
    /\ locks = NoLocks
    /\ qry = NoQuery
    /\ pf = NoPrefab
    /\ \E c \in Cats : cyc = [c |-> c, pending |-> nodes, out |-> <<>>, ended |-> FALSE]

\* one call of next() on the find_cycles iterator
FindCyclesPull ==
    /\ \E o \in FindCyclesNext(cyc.c, cyc.pending) :
         cyc' = [cyc EXCEPT
                   !.pending = o.pending,
                   !.out = IF o.val # <<>> THEN Append(@, o.val) ELSE @,
                   !.ended = (o.val = <<>>)]
    /\ UNCHANGED <<nodes, issued, relations, last, ops, trav, locks, qry, pf>>

NextCycles == FindCyclesPull

SpecCycles == InitCycles /\ [][NextCycles]_vars

\* the burning-trees scenario: a root whose neighbours are among all the
\* entities, and effects that lead from the trees to the fires or to a tree
FireRoot == 3
FireGraphs ==
    {RelateAllIn(RelateAllIn([c \in {} |-> EmptyTable], "Parent", eP), "Child", eC)
     : eP \in SUBSET ({FireRoot} \X (1..FireNodes)),
       eC \in SUBSET (({h \in 1..FireNodes : TypeOf(h) = "Tree"}
                        \X {h \in 1..FireNodes : TypeOf(h) = "Fire"})
                      \cup {<<1, FireRoot>>})}

\* the relation categories a Fetch type names
RECURSIVE FetchCats(_)
RECURSIVE TransformCats(_)
FetchCats(f) ==
    CASE f.k \in {"related", "traverse"} -> {f.c} \cup TransformCats(f.t)
      [] f.k = "tuple" -> UNION {FetchCats(f.fs[i]) : i \in 1..Len(f.fs)}
      [] OTHER -> {}
TransformCats(t) ==
    CASE t.k = "limit" -> TransformCats(t.t)
      [] t.k = "query" -> TransformCats(t.t) \cup FetchCats(t.f)
      [] OTHER -> {}

\* a graph with edges of the categories the Fetch names, and
\* graph.query::<Fetch>(root) just made
InitQuery ==
    /\ pf = NoPrefab
    /\ last = Call("relate", TRUE)
    /\ ops = MaxOps
    /\ trav = NoTraverse
    /\ cyc = NoCycles
    /\ locks = NoLocks
    /\ \E f \in QueryFetches, root \in QueryRoots :
          /\ nodes \in {Handles, Handles \ {1}}
          /\ issued = Handles
          /\ relations \in QueryGraphs
          /\ DOMAIN relations \subseteq FetchCats(f)
          /\ \E a \in Access(f, root) :
                qry = [fetch |-> f, root |-> root, start |-> a, access |-> a,
                       out |-> <<>>, pulls |-> 0, ended |-> FALSE, held |-> <<>>]

\* the queries test_graph makes on its scene from the root: the burning trees,
\* and the trees under the root for writing
FireFetches == {FireFetch, FRelated("Parent", TWrite("Tree"))}
\* test_graph's scene: a root, trees under it and fires on trees, and
\* graph.query::<Fetch>(root) just made
InitFire ==
    /\ pf = NoPrefab
    /\ last = Call("relate", TRUE)
    /\ ops = MaxOps
    /\ trav = NoTraverse
    /\ cyc = NoCycles
    /\ locks = NoLocks
    /\ nodes = 1..FireNodes
    /\ issued = nodes
    /\ relations \in FireGraphs
    /\ \E f \in FireFetches : \E a \in Access(f, FireRoot) :
          qry = [fetch |-> f, root |-> FireRoot, start |-> a, access |-> a,
                 out |-> <<>>, pulls |-> 0, ended |-> FALSE, held |-> <<>>]

\* QueryIter::next: one pull by the caller, who keeps the value
QueryPull ==
    /\ qry.root # NoHandle
    /\ \E o \in Fetch(qry.access, locks) :
          LET record == o.val # None /\ Len(qry.out) < QueryCap
          IN  /\ qry' = [qry EXCEPT
                    !.access = o.st,
                    !.out = IF record THEN Append(@, o.val[1]) ELSE @,
                    !.pulls = IF @ < QueryCap THEN @ + 1 ELSE @,
                    !.ended = (o.val = None),
                    !.held = IF record /\ HoldsAccess(o.val[1])
                             THEN Append(@, o.val[1]) ELSE @]
              /\ locks' = IF o.val # None /\ ~record THEN DropValue(o.val[1], o.lk)
                          ELSE o.lk
    /\ UNCHANGED <<nodes, issued, relations, last, ops, trav, cyc, pf>>

\* the caller drops a value the query gave it
QueryDropValue ==
    /\ \E i \in 1..Len(qry.held) :
          /\ locks' = DropValue(qry.held[i], locks)
          /\ qry' = [qry EXCEPT !.held = SubSeq(@, 1, i - 1) \o SubSeq(@, i + 1, Len(@))]
    /\ UNCHANGED <<nodes, issued, relations, last, ops, trav, cyc, pf>>

NextQuery == QueryPull \/ QueryDropValue

SpecQuery == InitQuery /\ [][NextQuery]_vars
SpecFire == InitFire /\ [][NextQuery]_vars

\* the caller keeps pulling
SpecQueryFair == SpecQuery /\ WF_vars(QueryPull)

InitTraverse ==
    /\ nodes = Handles
    /\ issued = Handles
    /\ relations \in BuiltGraphs
    /\ last = Call("relate", TRUE)
    /\ ops = MaxOps
    /\ \E index \in Handles, type_hash \in Cats \cup {AnyCat} :
         trav = [it |-> TraverseNew(index, type_hash), start |-> index,
                 out |-> <<>>, ended |-> FALSE, ends |-> 0]
    /\ cyc = NoCycles
    /\ locks = NoLocks
    /\ qry = NoQuery
    /\ pf = NoPrefab

\* mutant: next() advances a copy of the iterator and the pop is lost
TraversePullOnCopy ==
    /\ \E o \in TraverseNext(trav.it) :
         trav' = [trav EXCEPT
                    !.out = IF o.val # NoHandle /\ Len(@) < MaxOut
                            THEN Append(@, o.val) ELSE @,
                    !.ended = (o.val = NoHandle),
                    !.ends = IF o.val = NoHandle /\ @ < MaxEnds THEN @ + 1 ELSE @]
    /\ UNCHANGED <<nodes, issued, relations, last, ops, cyc, locks, qry, pf>>

\* one call of next() on the iterator
TraversePull ==
    /\ \E o \in TraverseNext(trav.it) :
         trav' = [trav EXCEPT
                    !.it = o.it,
                    !.out = IF o.val # NoHandle /\ Len(@) < MaxOut
                            THEN Append(@, o.val) ELSE @,
                    !.ended = (o.val = NoHandle),
                    !.ends = IF o.val = NoHandle /\ @ < MaxEnds THEN @ + 1 ELSE @]
    /\ UNCHANGED <<nodes, issued, relations, last, ops, cyc, locks, qry, pf>>

NextTraverse == TraversePull

SpecTraverse == InitTraverse /\ [][NextTraverse]_vars
\* the caller keeps pulling
SpecTraverseFair == SpecTraverse /\ WF_vars(TraversePull)

\* relations_traverse::<C>(start) on graphs over the four entities of
\* test_cycles, where a handle two edges away can have a sibling of its
\* parent: up to MaxBreadthEdges edges of the traversed category and up to
\* MaxOtherEdges of the other
MaxBreadthEdges == 4
BreadthHandles == 1..ScenarioNodes
BreadthGraphs ==
    {RelateAllIn(RelateAllIn([c \in {} |-> EmptyTable], "Parent", eP), "Child", eC) :
        eP \in {e \in SUBSET (BreadthHandles \X BreadthHandles) :
                   Cardinality(e) <= MaxBreadthEdges},
        eC \in {e \in SUBSET ({1} \X BreadthHandles) : Cardinality(e) <= MaxOtherEdges}}

InitBreadth ==
    /\ nodes = BreadthHandles
    /\ issued = BreadthHandles
    /\ relations \in BreadthGraphs
    /\ last = Call("relate", TRUE)
    /\ ops = MaxOps
    /\ \E type_hash \in {"Parent", AnyCat} :
         trav = [it |-> TraverseNew(1, type_hash), start |-> 1,
                 out |-> <<>>, ended |-> FALSE, ends |-> 0]
    /\ cyc = NoCycles
    /\ locks = NoLocks
    /\ qry = NoQuery
    /\ pf = NoPrefab

SpecBreadth == InitBreadth /\ [][NextTraverse]_vars

Init ==
    /\ nodes = {}
    /\ issued = {}
    /\ relations = [c \in {} |-> EmptyTable]
    /\ last = Call("new", TRUE)
    /\ ops = 0
    /\ trav = NoTraverse
    /\ cyc = NoCycles
    /\ locks = NoLocks
    /\ qry = NoQuery
    /\ pf = NoPrefab

\* Graph::insert: the arena hands out a handle it has not handed out before
Insert(h) ==
    /\ ops < MaxOps
    /\ h \notin issued
    /\ nodes' = nodes \cup {h}
    /\ issued' = issued \cup {h}
    /\ relations' = relations
    /\ last' = Call("insert", TRUE)
    /\ ops' = ops + 1
    /\ UNCHANGED iterVars

\* mutant: remove purges the relations before it asks the arena
RemoveAlwaysPurges(index) ==
    /\ ops < MaxOps
    /\ nodes' = nodes \ {index}
    /\ relations' = RemoveAllIn(relations, index)
    /\ last' = Call("remove", index \in nodes)
    /\ issued' = issued
    /\ ops' = ops + 1
    /\ UNCHANGED iterVars

\* Graph::remove: `self.nodes.remove(index)?` returns early on an invalid handle
Remove(index) ==
    /\ ops < MaxOps
    /\ IF index \in nodes
       THEN /\ nodes' = nodes \ {index}
            /\ relations' = RemoveAllIn(relations, index)
            /\ last' = Call("remove", TRUE)
       ELSE /\ nodes' = nodes
            /\ relations' = relations
            /\ last' = Call("remove", FALSE)
    /\ issued' = issued
    /\ ops' = ops + 1
    /\ UNCHANGED iterVars

\* mutant: clear empties the arena and keeps the relation tables
ClearNodesOnly ==
    /\ ops < MaxOps
    /\ nodes' = {}
    /\ issued' \in {issued, {}}
    /\ relations' = relations
    /\ last' = Call("clear", TRUE)
    /\ ops' = ops + 1
    /\ UNCHANGED iterVars

\* Graph::clear: the arena drops its storage, so it may hand out old handle
\* values again afterwards
Clear ==
    /\ ops < MaxOps
    /\ nodes' = {}
    /\ issued' \in {issued, {}}
    /\ relations' = [c \in {} |-> EmptyTable]
    /\ last' = Call("clear", TRUE)
    /\ ops' = ops + 1
    /\ UNCHANGED iterVars

Relate(c, from, to) ==
    /\ ops < MaxOps
    /\ relations' = RelateIn(relations, c, from, to)
    /\ last' = Call("relate", TRUE)
    /\ ops' = ops + 1
    /\ UNCHANGED iterVars
    /\ UNCHANGED <<nodes, issued>>

RelatePair(i, o, from, to) ==
    /\ ops < MaxOps
    /\ relations' = RelatePairIn(relations, i, o, from, to)
    /\ last' = Call("relate_pair", TRUE)
    /\ ops' = ops + 1
    /\ UNCHANGED iterVars
    /\ UNCHANGED <<nodes, issued>>

Unrelate(c, from, to) ==
    /\ ops < MaxOps
    /\ relations' = UnrelateIn(relations, c, from, to)
    /\ last' = Call("unrelate", TRUE)
    /\ ops' = ops + 1
    /\ UNCHANGED iterVars
    /\ UNCHANGED <<nodes, issued>>

UnrelatePair(i, o, from, to) ==
    /\ ops < MaxOps
    /\ relations' = UnrelatePairIn(relations, i, o, from, to)
    /\ last' = Call("unrelate_pair", TRUE)
    /\ ops' = ops + 1
    /\ UNCHANGED iterVars
    /\ UNCHANGED <<nodes, issued>>

UnrelateAll(c, from) ==
    /\ ops < MaxOps
    /\ relations' = UnrelateAllIn(relations, c, from)
    /\ last' = Call("unrelate_all", TRUE)
    /\ ops' = ops + 1
    /\ UNCHANGED iterVars
    /\ UNCHANGED <<nodes, issued>>

Next ==
    \/ \E h \in Handles : Insert(h)
    \/ \E h \in Handles : Remove(h)
    \/ Clear
    \/ \E c \in Cats, from \in Handles, to \in Handles : Relate(c, from, to)
    \/ \E i \in Cats, o \in Cats, from \in Handles, to \in Handles : RelatePair(i, o, from, to)
    \/ \E c \in Cats, from \in Handles, to \in Handles : Unrelate(c, from, to)
    \/ \E i \in Cats, o \in Cats, from \in Handles, to \in Handles : UnrelatePair(i, o, from, to)
    \/ \E c \in Cats, from \in Handles : UnrelateAll(c, from)

Spec == Init /\ [][Next]_vars

\* ------------------------------------------------------------------------
\* Prefab (prefab.rs)
\* ------------------------------------------------------------------------
\* graph operations made before a Prefab is taken
MaxPrefabOps == 3
\* changes made to a Prefab and to the registry before it is restored
MaxEdits == 1

\* AnyIndex::index: the slot of a handle in the arena of its type
IndexOf(h) == (h + 1) \div 2
\* AnyIndex::new(index, type_hash)
AnyIndexNew(index, T) == IF T = "Tree" THEN 2 * index - 1 ELSE 2 * index
\* PrefabRelationsTableItem / source_data_type and source_index
PrefabItem(h) == [data_type |-> TypeOf(h), index |-> IndexOf(h)]
ItemIndex(item) == AnyIndexNew(item.index, item.data_type)
\* the PrefabRelationsTable values made of one map of a RelationsTable
PrefabTables(m) ==
    {[source |-> PrefabItem(k), target |-> {PrefabItem(t) : t \in m[k]}] : k \in DOMAIN m}

\* graph.nodes.arenas(): one arena for each type a value was inserted of
ArenaTypes == {TypeOf(h) : h \in issued}
\* arena.indices()
ArenaIndices(T) == {IndexOf(h) : h \in {x \in nodes : TypeOf(x) = T}}
\* from_graph, one arena: find_type, then serialize every value
ArenaError(reg, ser, T) ==
    IF T \notin reg THEN "CouldNotFindType"
    ELSE IF T \notin ser /\ ArenaIndices(T) # {} THEN "CouldNotSerializeType"
    ELSE "none"
EndpointsOf(m) == (DOMAIN m) \cup UNION {m[k] : k \in DOMAIN m}
\* mutant: the endpoints of the edges are saved without resolving their types
RelationErrorNoEndpoints(reg, c) ==
    IF c \notin reg THEN "CouldNotFindType" ELSE "none"
\* from_graph, one relation category: find_type of the category, then of every
\* source and target of the incoming and of the outgoing map
RelationError(reg, c) ==
    IF c \notin reg THEN "CouldNotFindType"
    ELSE IF \E h \in EndpointsOf(relations[c].incoming) \cup EndpointsOf(relations[c].outgoing) :
                TypeOf(h) \notin reg
         THEN "CouldNotFindType"
         ELSE "none"
\* the node archetypes: the indices of each arena, in the arena's order
NodeArchetypes ==
    {n \in [ArenaTypes -> UNION {Perms(ArenaIndices(T)) : T \in ArenaTypes}] :
        \A T \in ArenaTypes : n[T] \in Perms(ArenaIndices(T))}
Failure(e) == [error |-> e, prefab |-> EmptyPrefab, graph |-> NoGraph, mappings |-> EmptyMap]
\* Prefab::from_graph: every result the call can have; the first error of the
\* arenas, else the first error of the categories, ends it
FromGraph(reg, ser) ==
    LET nodeErrors == {ArenaError(reg, ser, T) : T \in ArenaTypes} \ {"none"}
        relationErrors == {RelationError(reg, c) : c \in DOMAIN relations} \ {"none"}
    IN  IF nodeErrors # {} THEN {Failure(e) : e \in nodeErrors}
        ELSE IF relationErrors # {} THEN {Failure(e) : e \in relationErrors}
        ELSE {[error |-> "none",
               prefab |-> [nodes |-> n,
                           relations |-> [c \in DOMAIN relations |->
                               [outgoing |-> PrefabTables(relations[c].outgoing),
                                incoming |-> PrefabTables(relations[c].incoming)]]],
               graph |-> NoGraph, mappings |-> EmptyMap]
              : n \in NodeArchetypes}

\* mutant: every value of an archetype is restored into the same slot
RECURSIVE MapArchetypeSameSlot(_, _, _, _)
MapArchetypeSameSlot(m, T, indices, new) ==
    IF indices = <<>> THEN m
    ELSE MapArchetypeSameSlot(Put(m, AnyIndexNew(Head(indices), T), AnyIndexNew(new, T)),
                              T, Tail(indices), new)
\* to_graph, one node archetype: arena.allocate() for every old index, in
\* order, and mappings.insert(old, new); `new` is the next free slot
RECURSIVE MapArchetype(_, _, _, _)
MapArchetype(m, T, indices, new) ==
    IF indices = <<>> THEN m
    ELSE MapArchetype(Put(m, AnyIndexNew(Head(indices), T), AnyIndexNew(new, T)),
                      T, Tail(indices), new + 1)
RECURSIVE MapArchetypes(_, _, _)
MapArchetypes(m, archetypes, Ts) ==
    IF Ts = {} THEN m
    ELSE LET T == CHOOSE T \in Ts : TRUE
         IN  MapArchetypes(MapArchetype(m, T, archetypes[T], 1), archetypes, Ts \ {T})
\* the arena after every archetype is restored
RestoredNodes(archetypes) ==
    UNION {{AnyIndexNew(i, T) : i \in 1..Len(archetypes[T])} : T \in DOMAIN archetypes}
\* to_graph, one node archetype: find_type, then deserialize every value
ArchetypeError(reg, ser, archetypes, T) ==
    IF T \notin reg THEN "CouldNotDeserializeType"
    ELSE IF T \notin ser /\ archetypes[T] # <<>> THEN "CouldNotDeserializeType"
    ELSE "none"

\* mutant: an identifier that is not in the mappings is reported as a type
\* that could not be deserialized
TableErrorsAsTypeError(reg, m, t) ==
    IF t.source.data_type \notin reg THEN {"CouldNotDeserializeType"}
    ELSE IF \E x \in t.target \cup {t.source} : x.data_type \notin reg \/ ItemIndex(x) \notin DOMAIN m
         THEN {"CouldNotDeserializeType"}
         ELSE {}
\* to_graph, one PrefabRelationsTable: the errors that can come first. The
\* source type is resolved, then each target is resolved and looked up in the
\* mappings, then the source is looked up
TableErrors(reg, m, t) ==
    IF t.source.data_type \notin reg THEN {"CouldNotDeserializeType"}
    ELSE LET bad == {x \in t.target : x.data_type \notin reg \/ ItemIndex(x) \notin DOMAIN m}
         IN  IF bad # {}
             THEN {IF x.data_type \notin reg THEN "CouldNotDeserializeType"
                   ELSE "IndexNotFound" : x \in bad}
             ELSE IF ItemIndex(t.source) \notin DOMAIN m THEN {"IndexNotFound"}
             ELSE {}
TablesErrors(reg, m, tables) == UNION {TableErrors(reg, m, t) : t \in tables}
\* to_graph, one relation archetype: the category, the outgoing tables, then
\* the incoming tables
RelationArchetypeErrors(reg, m, c, archetype) ==
    IF c \notin reg THEN {"CouldNotDeserializeType"}
    ELSE IF TablesErrors(reg, m, archetype.outgoing) # {}
         THEN TablesErrors(reg, m, archetype.outgoing)
         ELSE TablesErrors(reg, m, archetype.incoming)
\* the map of a RelationsTable restored from its tables
RestoredMap(m, tables) ==
    [k \in {m[ItemIndex(t.source)] : t \in tables} |->
        UNION {{m[ItemIndex(x)] : x \in t.target}
               : t \in {u \in tables : m[ItemIndex(u.source)] = k}}]
\* Prefab::to_graph: every result the call can have
ToGraph(prefab, reg, ser) ==
    LET nodeErrors ==
            {ArchetypeError(reg, ser, prefab.nodes, T) : T \in DOMAIN prefab.nodes} \ {"none"}
        m == MapArchetypes(EmptyMap, prefab.nodes, DOMAIN prefab.nodes)
        relationErrors ==
            UNION {RelationArchetypeErrors(reg, m, c, prefab.relations[c])
                   : c \in DOMAIN prefab.relations}
    IN  IF nodeErrors # {} THEN {Failure(e) : e \in nodeErrors}
        ELSE IF relationErrors # {} THEN {Failure(e) : e \in relationErrors}
        ELSE {[error |-> "none", prefab |-> prefab,
               graph |-> [nodes |-> RestoredNodes(prefab.nodes),
                          relations |-> [c \in DOMAIN prefab.relations |->
                              [outgoing |-> RestoredMap(m, prefab.relations[c].outgoing),
                               incoming |-> RestoredMap(m, prefab.relations[c].incoming)]]],
               mappings |-> m]}

\* the registries of a program that takes a Prefab of its graph
PrefabRegistries ==
    {[registry |-> Names, serialization |-> Types]}
    \cup {[registry |-> Names \ {x}, serialization |-> Types] : x \in Names}
    \cup {[registry |-> Names, serialization |-> Types \ {T}] : T \in Types}
InitPrefab ==
    /\ nodes = {}
    /\ issued = {}
    /\ relations = [c \in {} |-> EmptyTable]
    /\ last = Call("new", TRUE)
    /\ ops = MaxOps - MaxPrefabOps
    /\ trav = NoTraverse
    /\ cyc = NoCycles
    /\ locks = NoLocks
    /\ qry = NoQuery
    /\ \E r \in PrefabRegistries :
          pf = [NoPrefab EXCEPT !.registry = r.registry, !.serialization = r.serialization]

\* the graph is built before the Prefab is taken
Build == pf.stage = "none" /\ Next

\* Prefab::from_graph(&graph, &serialization, &registry)
Snapshot ==
    /\ pf.stage = "none"
    /\ \E r \in FromGraph(pf.registry, pf.serialization) :
          pf' = [pf EXCEPT !.stage = IF r.error = "none" THEN "saved" ELSE "snapshot_failed",
                           !.prefab = r.prefab, !.error = r.error]
    /\ UNCHANGED <<nodes, issued, relations, last, ops, trav, cyc, locks, qry>>

\* a value is missing from the Prefab that is restored (a partial snapshot)
DropNode(T, i) ==
    /\ pf.stage = "saved"
    /\ pf.edits < MaxEdits
    /\ T \in DOMAIN pf.prefab.nodes
    /\ i \in 1..Len(pf.prefab.nodes[T])
    /\ pf' = [pf EXCEPT !.prefab.nodes[T] = SubSeq(@, 1, i - 1) \o SubSeq(@, i + 1, Len(@)),
                        !.edits = @ + 1]
    /\ UNCHANGED <<nodes, issued, relations, last, ops, trav, cyc, locks, qry>>

\* the Prefab is restored by a program whose registry lacks a name
Forget(x) ==
    /\ pf.stage = "saved"
    /\ pf.edits < MaxEdits
    /\ x \in pf.registry
    /\ pf' = [pf EXCEPT !.registry = @ \ {x}, !.edits = @ + 1]
    /\ UNCHANGED <<nodes, issued, relations, last, ops, trav, cyc, locks, qry>>

\* prefab.to_graph(&serialization, &registry)
Restore ==
    /\ pf.stage = "saved"
    /\ \E r \in ToGraph(pf.prefab, pf.registry, pf.serialization) :
          pf' = [pf EXCEPT !.stage = IF r.error = "none" THEN "restored" ELSE "restore_failed",
                           !.graph = r.graph, !.mappings = r.mappings, !.error = r.error]
    /\ UNCHANGED <<nodes, issued, relations, last, ops, trav, cyc, locks, qry>>

NextPrefab ==
    \/ Build
    \/ Snapshot
    \/ \E T \in Types, i \in 1..MaxHandles : DropNode(T, i)
    \/ \E x \in Names : Forget(x)
    \/ Restore

SpecPrefab == InitPrefab /\ [][NextPrefab]_vars

\* ------------------------------------------------------------------------
\* Lookups (graph.rs): calls with a `&self` receiver
\* ------------------------------------------------------------------------
\* graph operations made before and between the lookups
MaxLookupOps == 2
LookupOps ==
    {"are_related", "relations_outgoing", "relations_outgoing_raw", "relations_outgoing_any",
     "relations_incomming", "relations_incomming_raw", "relations_incomming_any"}
\* what a lookup gave back to its caller
Answer(op, c, from, to, value) ==
    [op |-> op, ok |-> TRUE, c |-> c, from |-> from, to |-> to, value |-> value]

\* relations_incomming_raw(index, type_hash) as an iteration
IncommingOrders(index, c) == Perms(RelationsIncommingRaw(index, c))
\* relations_incomming_any(index): the tables in HashMap order
RECURSIVE IncommingAnyOrdersOver(_, _)
IncommingAnyOrdersOver(index, cs) ==
    IF cs = {} THEN {<<>>}
    ELSE UNION {{first \o rest : first \in Perms(TableIncoming(relations[c], index)),
                                 rest \in IncommingAnyOrdersOver(index, cs \ {c})}
                : c \in cs}
IncommingAnyOrders(index) == IncommingAnyOrdersOver(index, DOMAIN relations)

LookupAreRelated(c, from, to) ==
    /\ last' = Answer("are_related", c, from, to, AreRelated(c, from, to))
    /\ UNCHANGED <<nodes, issued, relations, ops>>
    /\ UNCHANGED iterVars

LookupOutgoing(c, from) ==
    /\ \E p \in OutgoingOrders(from, c) :
          last' = Answer("relations_outgoing", c, from, NoHandle, p)
    /\ UNCHANGED <<nodes, issued, relations, ops>>
    /\ UNCHANGED iterVars

\* mutant: the lookup reaches its table with entry().or_default()
LookupOutgoingRawRegisters(from, c) ==
    /\ \E p \in OutgoingOrders(from, c) :
          last' = Answer("relations_outgoing_raw", c, from, NoHandle, p)
    /\ relations' = Put(relations, c, TableOrDefault(relations, c))
    /\ UNCHANGED <<nodes, issued, ops>>
    /\ UNCHANGED iterVars

LookupOutgoingRaw(from, c) ==
    /\ \E p \in OutgoingOrders(from, c) :
          last' = Answer("relations_outgoing_raw", c, from, NoHandle, p)
    /\ UNCHANGED <<nodes, issued, relations, ops>>
    /\ UNCHANGED iterVars

LookupOutgoingAny(from) ==
    /\ \E p \in OutgoingAnyOrders(from) :
          last' = Answer("relations_outgoing_any", AnyCat, from, NoHandle, p)
    /\ UNCHANGED <<nodes, issued, relations, ops>>
    /\ UNCHANGED iterVars

LookupIncomming(c, to) ==
    /\ \E p \in IncommingOrders(to, c) :
          last' = Answer("relations_incomming", c, NoHandle, to, p)
    /\ UNCHANGED <<nodes, issued, relations, ops>>
    /\ UNCHANGED iterVars

LookupIncommingRaw(to, c) ==
    /\ \E p \in IncommingOrders(to, c) :
          last' = Answer("relations_incomming_raw", c, NoHandle, to, p)
    /\ UNCHANGED <<nodes, issued, relations, ops>>
    /\ UNCHANGED iterVars

LookupIncommingAny(to) ==
    /\ \E p \in IncommingAnyOrders(to) :
          last' = Answer("relations_incomming_any", AnyCat, NoHandle, to, p)
    /\ UNCHANGED <<nodes, issued, relations, ops>>
    /\ UNCHANGED iterVars

InitLookup ==
    /\ nodes = {}
    /\ issued = {}
    /\ relations = [c \in {} |-> EmptyTable]
    /\ last = Call("new", TRUE)
    /\ ops = MaxOps - MaxLookupOps
    /\ trav = NoTraverse
    /\ cyc = NoCycles
    /\ locks = NoLocks
    /\ qry = NoQuery
    /\ pf = NoPrefab

NextLookup ==
    \/ Next
    \/ \E c \in Cats, from \in Handles, to \in Handles : LookupAreRelated(c, from, to)
    \/ \E c \in Cats, from \in Handles : LookupOutgoing(c, from)
    \/ \E c \in Cats, from \in Handles : LookupOutgoingRaw(from, c)
    \/ \E from \in Handles : LookupOutgoingAny(from)
    \/ \E c \in Cats, to \in Handles : LookupIncomming(c, to)
    \/ \E c \in Cats, to \in Handles : LookupIncommingRaw(to, c)
    \/ \E to \in Handles : LookupIncommingAny(to)

SpecLookup == InitLookup /\ [][NextLookup]_vars

\* the same calls on a graph that holds two entities and the "Parent" edges a
\* few relate calls made between them
InitRegistered ==
    /\ nodes = {1, 2}
    /\ issued = {1, 2}
    /\ relations \in {RelateAllIn([c \in {} |-> EmptyTable], "Parent", e) :
                        e \in {{}, {<<1, 2>>}, {<<1, 2>>, <<2, 2>>}}}
    /\ last = Call("insert", TRUE)
    /\ ops = MaxOps - MaxLookupOps
    /\ trav = NoTraverse
    /\ cyc = NoCycles
    /\ locks = NoLocks
    /\ qry = NoQuery
    /\ pf = NoPrefab

SpecRegistered == InitRegistered /\ [][NextLookup]_vars

\* ------------------------------------------------------------------------
\* Relation bookkeeping under mutation
\* ------------------------------------------------------------------------
\* every handle a table mentions, as a key or as a member of a set
TableHandles(t) ==
    (DOMAIN t.outgoing) \cup (DOMAIN t.incoming)
        \cup UNION {t.outgoing[k] : k \in DOMAIN t.outgoing}
        \cup UNION {t.incoming[k] : k \in DOMAIN t.incoming}

\* no table of rel mentions h in any outgoing or incoming set, and h's own
\* outgoing and incoming sets are empty
NoMentionIn(rel, h) ==
    \A c \in DOMAIN rel :
        /\ TableOutgoing(rel[c], h) = {}
        /\ TableIncoming(rel[c], h) = {}
        /\ \A k \in Handles : h \notin TableOutgoing(rel[c], k)
                              /\ h \notin TableIncoming(rel[c], k)

\* C1: in every state, every category's outgoing and incoming maps are inverse
\* views of one edge set: to is in outgoing[from] iff from is in incoming[to].
C1_InverseViews ==
    \A c \in DOMAIN relations : \A from \in Handles, to \in Handles :
        (to \in RelationsOutgoing(c, from)) <=> (from \in RelationsIncomming(c, to))

\* C2: a relate / unrelate call sets are_related of its own (category, from, to)
\* triple to true / false and leaves are_related of every other triple as it
\* was, so are_related is the net result of the calls made on that triple.
C2_NetResult ==
    [][\A c \in Cats, from \in Handles, to \in Handles :
         /\ Relate(c, from, to) =>
              \A d \in Cats, f \in Handles, t \in Handles :
                  AreRelatedIn(relations', d, f, t) =
                      (IF <<d, f, t>> = <<c, from, to>> THEN TRUE ELSE AreRelated(d, f, t))
         /\ Unrelate(c, from, to) =>
              \A d \in Cats, f \in Handles, t \in Handles :
                  AreRelatedIn(relations', d, f, t) =
                      (IF <<d, f, t>> = <<c, from, to>> THEN FALSE ELSE AreRelated(d, f, t))
      ]_vars

\* C3: after a successful remove(h), no registered category mentions h: its
\* outgoing and incoming sets are empty and no other set contains it.
C3_RemovePurges ==
    [][\A h \in Handles : (h \in nodes /\ Remove(h)) => NoMentionIn(relations', h)]_vars

\* C4: in every state, every handle a relation table mentions is valid in the
\* arena.
C4_TablesValid ==
    \A c \in DOMAIN relations : \A h \in TableHandles(relations[c]) : Contains(h)

\* ------------------------------------------------------------------------
\* Traversal
\* ------------------------------------------------------------------------
\* the handles reachable from the set S through outgoing edges of category c
RECURSIVE ReachFrom(_, _)
ReachFrom(c, S) ==
    LET step == S \cup UNION {RelationsOutgoing(c, h) : h \in S}
    IN  IF step = S THEN S ELSE ReachFrom(c, step)
Reachable(c, start) == ReachFrom(c, {start})

NoDuplicates(seq) == \A i, j \in 1..Len(seq) : i # j => seq[i] # seq[j]
Range(seq) == {seq[i] : i \in 1..Len(seq)}

\* C5: relations_traverse<C>(start) yields start first, no handle twice, only
\* handles reachable from start through C-outgoing edges, and by the time it
\* ends every such handle.
C5_TraverseExact ==
    trav.it.type_hash \in Cats =>
        /\ Len(trav.out) >= 1 => trav.out[1] = trav.start
        /\ NoDuplicates(trav.out)
        /\ Range(trav.out) \subseteq Reachable(trav.it.type_hash, trav.start)
        /\ trav.ended => Range(trav.out) = Reachable(trav.it.type_hash, trav.start)

\* a finished typed traversal of a cycle through all handles that also has a
\* self-loop
C5_Witness ==
    /\ trav.it.type_hash \in Cats
    /\ trav.ended
    /\ Len(trav.out) = MaxHandles
    /\ \A h \in Handles : trav.start \in ReachFrom(trav.it.type_hash,
                                             RelationsOutgoing(trav.it.type_hash, h))
    /\ \E h \in Handles : h \in RelationsOutgoing(trav.it.type_hash, h)

\* C6: a traversal (typed or any-category) that is pulled again and again
\* eventually returns None, and from then on always returns None.
C6_TraverseEnds == <>[](trav.ended)

\* an any-category traversal of a cyclic graph with a self-loop that returned
\* None more than once
C6_Witness ==
    /\ trav.it.type_hash = AnyCat
    /\ trav.ended
    /\ trav.ends = MaxEnds
    /\ Len(trav.out) = MaxHandles
    /\ \E c \in DOMAIN relations, h \in Handles : h \in RelationsOutgoing(c, h)
    /\ \E c \in DOMAIN relations : \E h \in Handles \ {trav.start} :
           trav.start \in RelationsOutgoing(c, h)

\* ------------------------------------------------------------------------
\* Cycles
\* ------------------------------------------------------------------------
\* reachability that stays inside the set N of handles
RECURSIVE ReachFromWithin(_, _, _)
ReachFromWithin(c, N, S) ==
    LET step == S \cup (N \cap UNION {RelationsOutgoing(c, h) : h \in S})
    IN  IF step = S THEN S ELSE ReachFromWithin(c, N, step)

\* the C-edges among the stored entities form a DAG
DagAmongStored(c) ==
    \A h \in nodes : h \notin ReachFromWithin(c, nodes, nodes \cap RelationsOutgoing(c, h))

\* some handle on a directed C-cycle can be reached from a stored entity
CycleReachableFromStored(c) ==
    \E s \in nodes : \E h \in Reachable(c, s) : h \in ReachFrom(c, RelationsOutgoing(c, h))

RECURSIVE Drain(_, _)
Drain(a, lk) ==
    LET o == CHOOSE o \in Fetch(a, lk) : TRUE
    IN  IF o.val = None THEN <<>>
        ELSE <<o.val[1]>> \o Drain(o.st, DropValue(o.val[1], o.lk))

Min(a, b) == IF a <= b THEN a ELSE b
IsPairQuery == qry.root # NoHandle /\ qry.fetch \in PairFetches
\* the values yielded so far are the position-wise pairs of what the two
\* components yield on their own, and at the end there are min(n1, n2) of them
ZipLaw ==
    LET first == Drain(qry.start.as[1], NoLocks)
        second == Drain(qry.start.as[2], NoLocks)
        n == Min(Len(first), Len(second))
    IN  /\ Len(qry.out) <= n
        /\ \A k \in 1..Len(qry.out) :
              k <= n /\ qry.out[k] = VTuple(<<first[k], second[k]>>)
        /\ qry.ended => Len(qry.out) = n
TakesAccess(t) == t.k \in {"read", "write", "optread", "optwrite"}
TakesWrite(t) == t.k \in {"write", "optwrite"}
\* both transforms want the same kind of node, and one wants it exclusively
Conflict(t1, t2) ==
    /\ TakesAccess(t1) /\ TakesAccess(t2)
    /\ t1.T = t2.T
    /\ TakesWrite(t1) \/ TakesWrite(t2)

IsConstantQuery == qry.root # NoHandle /\ qry.fetch \in {FUnit, FIndex}
\* C9: query::<()>(h) and query::<AnyIndex>(h) yield exactly one value (the
\* unit value, the handle h) and then end.
C9_OneShot ==
    IsConstantQuery =>
        /\ Len(qry.out) <= 1
        /\ qry.pulls >= 1 => qry.out = <<IF qry.fetch = FUnit THEN VUnit ELSE VIndex(qry.root)>>
        /\ qry.pulls >= 2 => qry.ended

\* C10: whatever the fetch, the graph and the root, a caller that keeps
\* pulling a query is eventually told that it has ended.
C10_QueryEnds == <>(qry.root # NoHandle /\ qry.ended)

IsFireQuery == qry.root # NoHandle /\ qry.fetch = FireFetch
\* the neighbours of the root that store a Tree and have an effect that leads
\* to an entity that stores a Fire
BurningTrees ==
    {t \in RelationsOutgoingRaw(qry.root, "Parent") :
        /\ Is("Tree", t)
        /\ \E f \in RelationsOutgoingRaw(t, "Child") : Is("Fire", f)}

\* C11: the burning-trees query yields exactly one (tree, unit) value for each
\* neighbour of the root that stores a Tree and has an effect edge to a Fire
\* entity, and nothing for any other neighbour.
C11_OnePerBurningTree ==
    IsFireQuery =>
        /\ Range(qry.out) \subseteq {VTuple(<<VIndex(t), VUnit>>) : t \in BurningTrees}
        /\ Len(qry.out) <= Cardinality(BurningTrees)
        /\ qry.ended => Len(qry.out) = Cardinality(BurningTrees)

\* every sequence the iterator of a transform can yield when it is pulled on
\* its own until it ends
RECURSIVE DrainIterAll(_, _)
DrainIterAll(st, lk) ==
    UNION {IF o.val = None THEN {<<>>}
           ELSE {<<o.val[1]>> \o r : r \in DrainIterAll(o.st, DropValue(o.val[1], o.lk))}
           : o \in IterNext(st, lk)}
\* for each handle of hs in turn, the first min(n, k) of the k outputs that
\* transform t alone yields for it
RECURSIVE LimitedRuns(_, _, _)
LimitedRuns(n, t, hs) ==
    IF hs = <<>> THEN {<<>>}
    ELSE {SubSeq(r, 1, Min(n, Len(r))) \o rest :
            r \in DrainIterAll(Transform(t, Head(hs), NoLocks).st, NoLocks),
            rest \in LimitedRuns(n, t, Tail(hs))}
IsPrefix(p, q) == Len(p) <= Len(q) /\ SubSeq(q, 1, Len(p)) = p
IsLimitQuery ==
    qry.root # NoHandle /\ qry.fetch.k = "related" /\ qry.fetch.t.k = "limit"

\* C12: Limit<N, Transform> applied to a handle yields the first min(N, k) of
\* the k outputs Transform alone yields for it, and never more than N.
C12_Limit ==
    IsLimitQuery =>
        LET runs == LimitedRuns(qry.fetch.t.n, qry.fetch.t.t, qry.start.src.items)
        IN  /\ \E r \in runs : IsPrefix(qry.out, r)
            /\ qry.ended => qry.out \in runs

\* a finished Limit<1, _> query that yielded a value and left one out that the
\* transform alone yields
C12_Witness ==
    /\ IsLimitQuery
    /\ qry.ended
    /\ qry.fetch.t.n = 1
    /\ Len(qry.out) >= 1
    /\ \E r \in LimitedRuns(QueryCap, qry.fetch.t.t, qry.start.src.items) :
          Len(r) > Len(qry.out)

\* ------------------------------------------------------------------------
\* Claims about prefabs
\* ------------------------------------------------------------------------
AllRegistered == pf.registry = Names /\ pf.serialization = Types
\* the Prefab taken of the graph was restored as it was taken
RoundTripDone == pf.edits = 0 /\ pf.stage = "restored"
Injective(m) == \A x, y \in DOMAIN m : m[x] = m[y] => x = y
\* map `to` is map `from` with every handle renamed by m
RenamedMap(m, from, to) ==
    /\ EndpointsOf(from) \subseteq DOMAIN m
    /\ DOMAIN to = {m[k] : k \in DOMAIN from}
    /\ \A k \in DOMAIN from : to[m[k]] = {m[t] : t \in from[k]}
EdgesOf(map) == {<<k, t>> : k \in DOMAIN map, t \in EndpointsOf(map)} \cap
                UNION {{k} \X map[k] : k \in DOMAIN map}

\* C13: when every type and category is registered, from_graph followed by
\* to_graph succeeds, and the restored graph has the entities and, in every
\* category, the outgoing and incoming sets of the graph, renamed by the
\* returned mapping.
C13_RoundTrip ==
    (AllRegistered /\ pf.edits = 0) =>
        /\ pf.stage \notin {"snapshot_failed", "restore_failed"}
        /\ pf.stage = "restored" =>
              /\ DOMAIN pf.mappings = nodes
              /\ Injective(pf.mappings)
              /\ pf.graph.nodes = {pf.mappings[h] : h \in nodes}
              /\ DOMAIN pf.graph.relations = DOMAIN relations
              /\ \A c \in DOMAIN relations :
                    /\ RenamedMap(pf.mappings, relations[c].outgoing,
                                  pf.graph.relations[c].outgoing)
                    /\ RenamedMap(pf.mappings, relations[c].incoming,
                                  pf.graph.relations[c].incoming)

\* C14: the mapping that to_graph(from_graph(g)) returns is a bijection from
\* the valid handles of g onto the valid handles of the restored graph that
\* keeps every handle's type, and the restored graph has as many entities as g
\* and, in every category, as many edges as g.
C14_Bijection ==
    RoundTripDone =>
        /\ DOMAIN pf.mappings = nodes
        /\ Injective(pf.mappings)
        /\ {pf.mappings[h] : h \in nodes} = pf.graph.nodes
        /\ \A h \in nodes : TypeOf(pf.mappings[h]) = TypeOf(h)
        /\ Cardinality(pf.graph.nodes) = Cardinality(nodes)
        /\ DOMAIN pf.graph.relations = DOMAIN relations
        /\ \A c \in DOMAIN relations :
              /\ Cardinality(EdgesOf(pf.graph.relations[c].outgoing))
                    = Cardinality(EdgesOf(relations[c].outgoing))
              /\ Cardinality(EdgesOf(pf.graph.relations[c].incoming))
                    = Cardinality(EdgesOf(relations[c].incoming))

\* a round trip of a graph with two entities of one type and an edge, in which
\* a handle is renumbered
C14_Witness ==
    /\ RoundTripDone
    /\ \E h, k \in nodes : h # k /\ TypeOf(h) = TypeOf(k)
    /\ \E c \in DOMAIN relations : EdgesOf(relations[c].outgoing) # {}
    /\ \E h \in nodes : pf.mappings[h] # h

\* the identifiers the node archetypes of a Prefab produce mappings for
ProducedIds(prefab) ==
    UNION {{AnyIndexNew(prefab.nodes[T][i], T) : i \in 1..Len(prefab.nodes[T])}
           : T \in DOMAIN prefab.nodes}
TableItems(tables) == UNION {{t.source} \cup t.target : t \in tables}
ArchetypeItems(prefab) ==
    UNION {TableItems(prefab.relations[c].outgoing) \cup TableItems(prefab.relations[c].incoming)
           : c \in DOMAIN prefab.relations}
\* a relation archetype names an identifier that no node archetype produced
NamesUnproduced(prefab) ==
    \E item \in ArchetypeItems(prefab) : ItemIndex(item) \notin ProducedIds(prefab)
\* every name the Prefab holds resolves, and every payload deserializes
PrefabResolves ==
    /\ DOMAIN pf.prefab.nodes \subseteq pf.registry
    /\ DOMAIN pf.prefab.relations \subseteq pf.registry
    /\ \A item \in ArchetypeItems(pf.prefab) : item.data_type \in pf.registry
    /\ \A T \in DOMAIN pf.prefab.nodes : pf.prefab.nodes[T] # <<>> => T \in pf.serialization
ToGraphCalled == pf.stage \in {"restored", "restore_failed"}

\* C15 as stated: to_graph fails with the mapping-not-found error whenever a
\* relation archetype names a source or target identifier that no node
\* archetype of the Prefab produced.
C15_MappingNotFound ==
    (ToGraphCalled /\ NamesUnproduced(pf.prefab)) =>
        pf.stage = "restore_failed" /\ pf.error = "IndexNotFound"

\* C15: whenever a relation archetype names an identifier that no node
\* archetype produced, to_graph fails and returns no graph and no mapping; the
\* error is the mapping-not-found error when every type and category named in
\* the Prefab resolves and every payload deserializes.
C15_UnproducedFails ==
    (ToGraphCalled /\ NamesUnproduced(pf.prefab)) =>
        /\ pf.stage = "restore_failed"
        /\ pf.error # "none"
        /\ pf.graph = NoGraph /\ pf.mappings = EmptyMap
        /\ PrefabResolves => pf.error = "IndexNotFound"

\* to_graph was given a Prefab that lost a node an edge names, with every name
\* resolving, and failed with the mapping-not-found error
C15_Witness ==
    /\ pf.stage = "restore_failed"
    /\ pf.edits = 1
    /\ NamesUnproduced(pf.prefab)
    /\ PrefabResolves
    /\ \A h \in UNION {TableHandles(relations[c]) : c \in DOMAIN relations} : h \in nodes
    /\ pf.error = "IndexNotFound"

\* from_graph was called on the graph as it is, with the registry as it is
FromGraphCalled == pf.stage \in {"saved", "snapshot_failed"} /\ pf.edits = 0
EndpointTypes ==
    {TypeOf(h) : h \in UNION {TableHandles(relations[c]) : c \in DOMAIN relations}}
\* the type of an arena, a registered category or the type of an edge endpoint
\* is not in the registry
Unresolvable ==
    \/ ~(ArenaTypes \subseteq pf.registry)
    \/ ~(DOMAIN relations \subseteq pf.registry)
    \/ ~(EndpointTypes \subseteq pf.registry)

\* C16: from_graph fails with an error and produces no Prefab if the type of a
\* node arena, a registered relation category or the type of an edge endpoint
\* cannot be resolved in the registry.
C16_FromGraphFails ==
    (FromGraphCalled /\ Unresolvable) =>
        /\ pf.stage = "snapshot_failed"
        /\ pf.error \in {"CouldNotFindType", "CouldNotSerializeType"}
        /\ pf.prefab = EmptyPrefab

\* from_graph failed on the type of an edge endpoint alone: every arena and
\* every category resolves
C16_Witness ==
    /\ FromGraphCalled
    /\ nodes # {}
    /\ ArenaTypes \subseteq pf.registry
    /\ DOMAIN relations \subseteq pf.registry
    /\ ~(EndpointTypes \subseteq pf.registry)
    /\ pf.stage = "snapshot_failed"
    /\ pf.error = "CouldNotFindType"

\* ------------------------------------------------------------------------
\* Claims about single calls
\* ------------------------------------------------------------------------
\* C17: remove(h) on a handle that the arena does not hold returns an error
\* and leaves the arena and every relation table as they were, edges that
\* mention h included.
C17_RemoveInvalid ==
    [][\A h \in Handles : (~Contains(h) /\ Remove(h)) =>
          /\ last' = Call("remove", FALSE)
          /\ nodes' = nodes
          /\ issued' = issued
          /\ relations' = relations
      ]_vars

\* a remove has just failed while a table mentions a handle that was issued
\* and is no longer valid
C17_Witness ==
    /\ last = Call("remove", FALSE)
    /\ \E h \in issued \ nodes : \E c \in DOMAIN relations :
          h \in UNION {relations[c].outgoing[k] : k \in DOMAIN relations[c].outgoing}

\* C18: right after clear(), no handle issued before it is contained, no
\* relation category is registered, and in every category are_related is false
\* and the outgoing and incoming lookups are empty for all handles.
C18_ClearEmpties ==
    [][Clear =>
          /\ \A h \in issued : h \notin nodes'
          /\ nodes' = {}
          /\ DOMAIN relations' = {}
          /\ \A c \in Cats, from \in Handles, to \in Handles :
                /\ ~AreRelatedIn(relations', c, from, to)
                /\ OutgoingRawIn(relations', from, c) = {}
                /\ IncommingRawIn(relations', to, c) = {}
      ]_vars

\* clear() was the last call, made on a graph that had been worked on
C18_Witness ==
    /\ last = Call("clear", TRUE)
    /\ ops >= 3
    /\ issued # {}
    /\ nodes = {} /\ DOMAIN relations = {}

\* C19: on every graph a call can be made on, relate_pair<I, O>(from, to) makes
\* are_related<O>(from, to) and are_related<I>(to, from) true, and
\* unrelate_pair<I, O>(from, to), called right after it or on the graph as it
\* is, makes both false, for distinct categories and for I = O.
C19_PairBothWays ==
    ops < MaxOps => \A i \in Cats, o \in Cats, from \in Handles, to \in Handles :
        LET related == RelatePairIn(relations, i, o, from, to)
            unrelated == UnrelatePairIn(related, i, o, from, to)
            removed == UnrelatePairIn(relations, i, o, from, to)
        IN  /\ AreRelatedIn(related, o, from, to) /\ AreRelatedIn(related, i, to, from)
            /\ ~AreRelatedIn(unrelated, o, from, to) /\ ~AreRelatedIn(unrelated, i, to, from)
            /\ ~AreRelatedIn(removed, o, from, to) /\ ~AreRelatedIn(removed, i, to, from)

\* unrelate_pair was the last call and emptied, under two distinct categories,
\* the outgoing sets that a relate_pair had filled
C19_Witness ==
    /\ last = Call("unrelate_pair", TRUE)
    /\ \E i \in DOMAIN relations, o \in DOMAIN relations, from \in Handles, to \in Handles :
          /\ i # o /\ from # to
          /\ from \in DOMAIN relations[o].outgoing /\ relations[o].outgoing[from] = {}
          /\ to \in DOMAIN relations[i].outgoing /\ relations[i].outgoing[to] = {}
          /\ from \in TableIncoming(relations[o], to)
          /\ to \in TableIncoming(relations[i], from)

\* C20: on every graph a call can be made on, a second relate<C>(from, to)
\* right after a first leaves the outgoing and incoming sets of every category
\* as the first left them, and relations_outgoing<C>(from) then yields `to`
\* once.
C20_RelateIdempotent ==
    ops < MaxOps => \A c \in Cats, from \in Handles, to \in Handles :
        LET once == RelateIn(relations, c, from, to)
        IN  /\ RelateIn(once, c, from, to) = once
            /\ \A p \in Perms(OutgoingRawIn(once, from, c)) :
                  Cardinality({n \in 1..Len(p) : p[n] = to}) = 1

\* relate was the last of two calls and the graph holds one edge
C20_Witness ==
    /\ last = Call("relate", TRUE)
    /\ ops = 2
    /\ \E c \in DOMAIN relations, from \in Handles, to \in Handles :
          /\ DOMAIN relations = {c}
          /\ relations[c].outgoing = Put(EmptyMap, from, {to})
          /\ relations[c].incoming = Put(EmptyMap, to, {from})

\* ------------------------------------------------------------------------
\* Claims about unrelate_all and the lookups
\* ------------------------------------------------------------------------
\* what unrelate_all<c>(h) is said to leave behind in the relation map `after`
UnrelateAllEffect(after, c, h) ==
    /\ OutgoingRawIn(after, h, c) = {}
    /\ \A k \in Handles : h \notin IncommingRawIn(after, k, c)
    /\ \A f \in Handles \ {h}, t \in Handles :
          /\ AreRelatedIn(after, c, f, t) = AreRelated(c, f, t)
          /\ (f \in IncommingRawIn(after, t, c)) = (f \in RelationsIncommingRaw(t, c))
    /\ \A d \in Cats \ {c}, f \in Handles, t \in Handles :
          /\ AreRelatedIn(after, d, f, t) = AreRelated(d, f, t)
          /\ (f \in IncommingRawIn(after, t, d)) = (f \in RelationsIncommingRaw(t, d))

\* C21: after unrelate_all<C>(h), relations_outgoing<C>(h) is empty and no
\* C-incoming set contains h, while every C-edge whose source is not h and
\* every edge of the other categories is as it was.
C21_UnrelateAll ==
    [][\A c \in Cats, h \in Handles :
          UnrelateAll(c, h) => UnrelateAllEffect(relations', c, h)]_vars

\* the table a lookup asks has nothing for it: the category has no table, or
\* the handle has no entry in the map the lookup reads
NothingStored(a) ==
    CASE a.op = "are_related" \/ a.op \in {"relations_outgoing", "relations_outgoing_raw"} ->
            a.c \notin DOMAIN relations \/ a.from \notin DOMAIN relations[a.c].outgoing
      [] a.op \in {"relations_incomming", "relations_incomming_raw"} ->
            a.c \notin DOMAIN relations \/ a.to \notin DOMAIN relations[a.c].incoming
      [] a.op = "relations_outgoing_any" ->
            \A c \in DOMAIN relations : a.from \notin DOMAIN relations[c].outgoing
      [] a.op = "relations_incomming_any" ->
            \A c \in DOMAIN relations : a.to \notin DOMAIN relations[c].incoming
NothingFound(a) == IF a.op = "are_related" THEN a.value = FALSE ELSE a.value = <<>>

\* C22: a lookup (are_related, relations_outgoing, relations_incomming and
\* their raw and any-category variants) leaves the graph as it is, does not
\* fail, and gives false or an empty sequence when the category has no table
\* or the handle has no entry.
C22_LookupsPure ==
    [][last'.op \in LookupOps =>
          /\ nodes' = nodes /\ issued' = issued /\ relations' = relations
          /\ last'.ok
          /\ NothingStored(last') => NothingFound(last')
      ]_vars

\* an incoming lookup was made in a category that has a table, for a handle
\* with no entry in it, and gave nothing
C22_Witness ==
    /\ last.op \in {"relations_incomming", "relations_incomming_raw"}
    /\ last.c \in DOMAIN relations
    /\ relations[last.c].incoming # EmptyMap
    /\ last.to \notin DOMAIN relations[last.c].incoming
    /\ last.value = <<>>

\* ------------------------------------------------------------------------
\* Claims about Related, Traverse and Query
\* ------------------------------------------------------------------------
IsReadQuery ==
    qry.root # NoHandle /\ qry.fetch.k = "related" /\ qry.fetch.t.k = "read"
\* the neighbours of the root that store a T and can be read
Readable ==
    {k \in RelationsOutgoingRaw(qry.root, qry.fetch.c) :
        Is(qry.fetch.t.T, k) /\ ~locks[k].w}

\* C23: query::<Related<C, &T>>(root) yields one read accessor for each
\* C-outgoing neighbour of root that stores a T and can be read, and nothing
\* else; a neighbour that gives nothing does not end the enumeration.
C23_ReadSkipsFailures ==
    IsReadQuery =>
        /\ Range(qry.out) \subseteq {VRead(k) : k \in Readable}
        /\ NoDuplicates(qry.out)
        /\ qry.ended => Range(qry.out) = {VRead(k) : k \in Readable}

\* the first neighbour the query reached gave nothing, and a later one was
\* still yielded
C23_Witness ==
    /\ IsReadQuery
    /\ qry.ended
    /\ Len(qry.start.src.items) >= 2
    /\ Head(qry.start.src.items) \notin Readable
    /\ qry.out # <<>>

\* every sequence of at most n values an access can yield when it is pulled on
\* its own, the caller dropping each value before the next pull
RECURSIVE DrainAccessAll(_, _, _)
DrainAccessAll(a, lk, n) ==
    IF n = 0 THEN {<<>>}
    ELSE UNION {IF o.val = None THEN {<<>>}
                ELSE {<<o.val[1]>> \o r :
                        r \in DrainAccessAll(o.st, DropValue(o.val[1], o.lk), n - 1)}
                : o \in Fetch(a, lk)}
\* the results of graph.query::<f>(k) for each handle k of ks in turn, one
\* after the other
RECURSIVE FetchRuns(_, _)
FetchRuns(f, ks) ==
    IF ks = <<>> THEN {<<>>}
    ELSE {r \o rest :
            r \in UNION {DrainAccessAll(a, NoLocks, QueryCap) : a \in Access(f, Head(ks).h)},
            rest \in FetchRuns(f, Tail(ks))}
\* for each handle of hs in turn, the results of f for the handles that
\* transform t yields for it
RECURSIVE QueryRuns(_, _, _)
QueryRuns(t, f, hs) ==
    IF hs = <<>> THEN {<<>>}
    ELSE {r \o rest :
            r \in UNION {FetchRuns(f, ks)
                         : ks \in DrainIterAll(Transform(t, Head(hs), NoLocks).st, NoLocks)},
            rest \in QueryRuns(t, f, Tail(hs))}
Truncated(r) == SubSeq(r, 1, Min(Len(r), QueryCap))
RECURSIVE FetchWrites(_)
RECURSIVE TransformWrites(_)
FetchWrites(f) ==
    CASE f.k \in {"related", "traverse"} -> TransformWrites(f.t)
      [] f.k = "tuple" -> \E i \in 1..Len(f.fs) : FetchWrites(f.fs[i])
      [] OTHER -> FALSE
TransformWrites(t) ==
    CASE t.k \in {"write", "optwrite"} -> TRUE
      [] t.k = "limit" -> TransformWrites(t.t)
      [] t.k = "query" -> TransformWrites(t.t) \/ FetchWrites(t.f)
      [] OTHER -> FALSE
\* Related<C, Query<Transform, Fetch>> with a Fetch that takes no write access
\* (what a write accessor yields depends on the guards the caller still holds)
IsNestedQuery ==
    /\ qry.root # NoHandle
    /\ qry.fetch.k = "related" /\ qry.fetch.t.k = "query"
    /\ ~FetchWrites(qry.fetch)

\* C24: Query<Transform, Fetch> applied to a handle yields, for each handle k
\* that Transform outputs and in that order, the whole result sequence of
\* graph.query::<Fetch>(k), one after the other; a k whose Fetch yields nothing
\* does not stop a later k.
C24_QueryConcatenates ==
    IsNestedQuery =>
        LET runs == QueryRuns(qry.fetch.t.t, qry.fetch.t.f, qry.start.src.items)
        IN  /\ \E r \in runs : IsPrefix(qry.out, Truncated(r))
            /\ qry.ended => qry.out \in runs

\* a finished nested query in which the first handle the transform gave
\* yielded nothing for the Fetch and a later one yielded a value
C24_Witness ==
    /\ IsNestedQuery
    /\ qry.ended
    /\ qry.out # <<>>
    /\ Len(qry.start.src.items) >= 2
    /\ QueryRuns(qry.fetch.t.t, qry.fetch.t.f, <<Head(qry.start.src.items)>>) = {<<>>}

\* every sequence relations_traverse can yield from the iterator `it` on
RECURSIVE TraverseAll(_)
TraverseAll(it) ==
    UNION {IF o.val = NoHandle THEN {<<>>}
           ELSE {<<o.val>> \o r : r \in TraverseAll(o.it)}
           : o \in TraverseNext(it)}
\* what transform t yields for each handle of hs in turn, one after the other
RECURSIVE TransformRuns(_, _)
TransformRuns(t, hs) ==
    IF hs = <<>> THEN {<<>>}
    ELSE {r \o rest :
            r \in DrainIterAll(Transform(t, Head(hs), NoLocks).st, NoLocks),
            rest \in TransformRuns(t, Tail(hs))}
IsTraverseQuery == qry.root # NoHandle /\ qry.fetch.k = "traverse"
TraverseSequences == TraverseAll(TraverseNew(qry.root, qry.fetch.c))

\* C25: query::<Traverse<C, Transform>>(root) yields what Transform yields for
\* the handles of a sequence relations_traverse<C>(root) yields, in that order
\* and each handle once; with the identity transform it is that sequence: the
\* root first, then every handle reachable through C-outgoing edges.
C25_TraverseFetch ==
    IsTraverseQuery =>
        /\ \E s \in TraverseSequences :
              \E r \in TransformRuns(qry.fetch.t, s) :
                  IsPrefix(qry.out, r) /\ (qry.ended => qry.out = r)
        /\ qry.fetch.t = TId =>
              /\ qry.out # <<>> => qry.out[1] = VIndex(qry.root)
              /\ NoDuplicates(qry.out)
              /\ Range(qry.out) \subseteq {VIndex(h) : h \in Reachable(qry.fetch.c, qry.root)}
              /\ qry.ended =>
                    Range(qry.out) = {VIndex(h) : h \in Reachable(qry.fetch.c, qry.root)}

\* a finished identity traversal query that went two edges away from the root
C25_Witness ==
    /\ IsTraverseQuery
    /\ qry.fetch.t = TId
    /\ qry.ended
    /\ Len(qry.out) = 3
    /\ \E h \in Handles : VIndex(h) \in Range(qry.out)
                          /\ h # qry.root
                          /\ h \notin RelationsOutgoingRaw(qry.root, qry.fetch.c)

IsNodeQuery ==
    qry.root # NoHandle /\ qry.fetch.k = "related" /\ qry.fetch.t.k = "node"
\* the neighbours of the root under the category that store the type
NeighboursOfType ==
    {h \in RelationsOutgoingRaw(qry.root, qry.fetch.c) : Is(qry.fetch.t.T, h)}
Handle(v) == v.h

\* C26: query::<Related<R, Node<T>>>(from) and find::<R, T>(from) yield the
\* same handles, each once: the R-outgoing neighbours of `from` that store a T.
C26_FindAgrees ==
    IsNodeQuery =>
        /\ \A found \in Find(qry.fetch.c, qry.fetch.t.T, qry.root) :
              NoDuplicates(found) /\ Range(found) = NeighboursOfType
        /\ NoDuplicates(qry.out)
        /\ \E found \in Find(qry.fetch.c, qry.fetch.t.T, qry.root) :
              /\ IsPrefix([n \in 1..Len(qry.out) |-> Handle(qry.out[n])], found)
              /\ qry.ended => Len(qry.out) = Len(found)
        /\ qry.ended => {Handle(v) : v \in Range(qry.out)} = NeighboursOfType

\* a finished Related<R, Node<T>> query on a root with a neighbour that stores
\* a T and a neighbour that does not
C26_Witness ==
    /\ IsNodeQuery
    /\ qry.ended
    /\ qry.out # <<>>
    /\ RelationsOutgoingRaw(qry.root, qry.fetch.c) \ NeighboursOfType # {}

\* ------------------------------------------------------------------------
\* Claims about relate followed by unrelate
\* ------------------------------------------------------------------------
\* every lookup gives in the relation map `after` what it gives now
SameLookups(after) ==
    \A d \in Cats, a \in Handles, b \in Handles :
        /\ AreRelatedIn(after, d, a, b) = AreRelated(d, a, b)
        /\ OutgoingRawIn(after, a, d) = RelationsOutgoingRaw(a, d)
        /\ IncommingRawIn(after, b, d) = RelationsIncommingRaw(b, d)

\* C27: on every graph in which (from, to) is not related under C,
\* relate<C>(from, to) followed by unrelate<C>(from, to) gives back every
\* lookup result (are_related, relations_outgoing, relations_incomming, for
\* every category and all handles) as it was before the relate.
C27_UnrelateInverts ==
    ops + 1 < MaxOps =>
        \A c \in Cats, from \in Handles, to \in Handles :
            ~AreRelated(c, from, to) =>
                SameLookups(UnrelateIn(RelateIn(relations, c, from, to), c, from, to))

\* ------------------------------------------------------------------------
\* Claims about tuple fetches
\* ------------------------------------------------------------------------
IsTupleQuery == qry.root # NoHandle /\ qry.fetch.k = "tuple"
\* the component accesses after one pull in which every component is advanced
\* by one step, and whether all of them produced a value
RECURSIVE AdvanceEvery(_, _, _, _)
AdvanceEvery(as, i, lk, all) ==
    IF i > Len(as) THEN {[as |-> as, all |-> all]}
    ELSE UNION {AdvanceEvery([as EXCEPT ![i] = o.st], i + 1, o.lk, all /\ o.val # None)
                : o \in Fetch(as[i], lk)}
\* the component accesses after one pull in which the components are advanced
\* in order up to the first that is exhausted, the later ones being left alone
RECURSIVE AdvanceToFirstNone(_, _, _)
AdvanceToFirstNone(as, i, lk) ==
    IF i > Len(as) THEN {[as |-> as, all |-> TRUE]}
    ELSE UNION {IF o.val = None
                THEN {[as |-> [as EXCEPT ![i] = o.st], all |-> FALSE]}
                ELSE AdvanceToFirstNone([as EXCEPT ![i] = o.st], i + 1, o.lk)
                : o \in Fetch(as[i], lk)}
\* the pull of this step left the components as `after` says and yielded a
\* value iff all of them produced one
PullMatches(after) ==
    \E r \in after : qry'.access.as = r.as /\ qry'.ended = ~r.all

C29_TupleStaysEnded ==
    [][(IsTupleQuery /\ qry.ended /\ QueryPull) => qry'.ended]_vars

\* two pulls at least returned end while a component still has a value to give
C29_Witness ==
    /\ IsTupleQuery
    /\ qry.ended
    /\ Len(qry.out) + 2 <= qry.pulls
    /\ qry.pulls < QueryCap
    /\ \E i \in 1..Len(qry.access.as) :
          /\ qry.access.as[i].k = "flat"
          /\ Drain(qry.access.as[i], NoLocks) # <<>>

\* ------------------------------------------------------------------------
\* find_cycle
\* ------------------------------------------------------------------------
\* a directed C-cycle can be reached from start
CycleReachableFrom(c, start) ==
    \E h \in Reachable(c, start) : h \in ReachFrom(c, RelationsOutgoing(c, h))

\* p is a directed C-cycle: distinct handles, each related to the next and the
\* last one to the first
IsCycle(c, p) ==
    /\ \A i, j \in 1..Len(p) : p[i] = p[j] => i = j
    /\ \A i \in 1..(Len(p) - 1) : p[i + 1] \in RelationsOutgoing(c, p[i])
    /\ p[1] \in RelationsOutgoing(c, p[Len(p)])

\* C30: find_cycle<C>(start) returns a non-empty sequence iff a directed
\* C-cycle is reachable from start; a non-empty result p0..pk has pairwise
\* distinct elements, every p(i) -> p(i+1) and pk -> p0 is a C-edge (so a
\* one-element result is a self-loop), and the handles walked before p0 are not
\* in it: start is in it only as p0, and all of it is reachable from start.
\* Stated for every start on every graph find_cycles is about to search.
C30_FindCycle ==
    (cyc.out = <<>> /\ ~cyc.ended) =>
    \A start \in issued : \A p \in FindCycle(cyc.c, start) :
        /\ (p # <<>>) <=> CycleReachableFrom(cyc.c, start)
        /\ p # <<>> =>
              /\ IsCycle(cyc.c, p)
              /\ Range(p) \subseteq Reachable(cyc.c, start)
              /\ start \in Range(p) => p[1] = start

\* find_cycles yielded a cycle of several handles that find_cycle finds from
\* a stored entity outside it, and find_cycle finds a self-loop from another
C30_Witness ==
    /\ \E i \in 1..Len(cyc.out) :
          /\ Len(cyc.out[i]) >= 2
          /\ \E start \in nodes \ Range(cyc.out[i]) :
                cyc.out[i] \in FindCycle(cyc.c, start)
    /\ \E start \in issued : \E p \in FindCycle(cyc.c, start) :
          Len(p) = 1 /\ p[1] # start

\* ------------------------------------------------------------------------
\* Breadth-first order
\* ------------------------------------------------------------------------
\* the length of the shortest c-path from a handle of the frontier to x, the
\* frontier being d edges away already; Unreached when there is none
Unreached == ScenarioNodes + 1
RECURSIVE DistFrom(_, _, _, _, _)
DistFrom(c, frontier, seen, x, d) ==
    IF x \in frontier THEN d
    ELSE IF frontier = {} THEN Unreached
    ELSE DistFrom(c, UNION {RelationsOutgoing(c, h) : h \in frontier} \ (seen \cup frontier),
                  seen \cup frontier, x, d + 1)
Dist(c, start, x) == DistFrom(c, {start}, {}, x, 0)

\* C31: relations_traverse<C>(start) yields handles in breadth-first order: a
\* handle yielded before another is at most as many C-edges away from start,
\* and only C-edges are followed, never those of another category.
C31_BreadthFirst ==
    trav.it.type_hash \in Cats =>
        /\ \A i, j \in 1..Len(trav.out) :
              i < j => Dist(trav.it.type_hash, trav.start, trav.out[i])
                          <= Dist(trav.it.type_hash, trav.start, trav.out[j])
        /\ \A i \in 1..Len(trav.out) :
              Dist(trav.it.type_hash, trav.start, trav.out[i]) < Unreached

\* a finished typed traversal that yielded a handle two edges away after two
\* handles one edge away, one of which leads to it, on a graph where an edge of
\* the other category leads from the start straight to that handle
C31_Witness ==
    /\ trav.it.type_hash = "Parent"
    /\ trav.ended
    /\ Len(trav.out) = ScenarioNodes
    /\ Dist("Parent", trav.start, trav.out[2]) = 1
    /\ Dist("Parent", trav.start, trav.out[3]) = 1
    /\ Dist("Parent", trav.start, trav.out[4]) = 2
    /\ trav.out[4] \in RelationsOutgoing("Parent", trav.out[2])
    /\ trav.out[4] \in RelationsOutgoing("Child", trav.start)

\* ------------------------------------------------------------------------
\* Removed entities
\* ------------------------------------------------------------------------
\* a state that relate calls on valid handles alone lead to: the two views of
\* every table agree and every handle in a table is stored
FromValidRelates ==
    /\ C1_InverseViews
    /\ \A c \in DOMAIN relations, h \in Handles :
          RelationsOutgoing(c, h) # {} => ({h} \cup RelationsOutgoing(c, h)) \subseteq nodes

\* from a stored entity no lookup yields a handle that is not stored
YieldsStored ==
    \A c \in DOMAIN relations, h \in nodes :
        /\ RelationsOutgoing(c, h) \subseteq nodes
        /\ RelationsOutgoingAny(h) \subseteq nodes
        /\ Reachable(c, h) \subseteq nodes

\* C32 as stated: when relate and relate_pair are only called with valid
\* handles, every handle that relations_outgoing, relations_outgoing_any,
\* relations_traverse or a Related / Traverse fetch yields from a valid handle
\* is valid; here for the step that matters, a remove on a graph built by
\* relate calls on valid handles.
C32_RemovedNeverYielded ==
    [][(FromValidRelates /\ last'.op = "remove") => YieldsStored']_vars

\* the edges of `after` and of the graph that do not involve h are the same,
\* seen through are_related, the outgoing sets and the incoming sets
SameEdgesBut(after, h) ==
    \A c \in Cats : \A from, to \in Handles \ {h} :
        /\ AreRelatedIn(after, c, from, to) = AreRelated(c, from, to)
        /\ (to \in OutgoingRawIn(after, from, c)) = (to \in RelationsOutgoing(c, from))
        /\ (from \in IncommingRawIn(after, to, c)) = (from \in RelationsIncomming(c, to))

\* C33: Graph::remove(h) changes no edge that does not involve h: for every
\* category and every pair (from, to) with from # h and to # h, are_related and
\* the membership of `to` in outgoing(from) and of `from` in incoming(to) are
\* the same before and after, and no other entity leaves the arena.
C33_RemoveFrame ==
    [][\A h \in Handles : Remove(h) =>
          /\ SameEdgesBut(relations', h)
          /\ nodes \ {h} = nodes' \ {h}]_vars

\* a remove succeeded and drained the removed handle's outgoing set, and an
\* edge between two other handles is still there
C33_Witness ==
    /\ last = Call("remove", TRUE)
    /\ \E h \in issued \ nodes, c \in DOMAIN relations :
          /\ h \in DOMAIN relations[c].outgoing
          /\ relations[c].outgoing[h] = {}
          /\ \E from, to \in Handles \ {h} :
                /\ AreRelated(c, from, to)
                /\ from \in RelationsIncomming(c, to)

\* ------------------------------------------------------------------------
\* Categories
\* ------------------------------------------------------------------------
\* category d reads the same in `after` as in the graph: are_related,
\* relations_outgoing and relations_incomming
SameCategory(after, d) ==
    \A from, to \in Handles :
        /\ AreRelatedIn(after, d, from, to) = AreRelated(d, from, to)
        /\ OutgoingRawIn(after, from, d) = RelationsOutgoing(d, from)
        /\ IncommingRawIn(after, to, d) = RelationsIncomming(d, to)

\* C34: relation categories are isolated: relate<C>, unrelate<C> and
\* unrelate_all<C> never change are_related<D>, relations_outgoing<D> or
\* relations_incomming<D> for a category D other than C, and never change
\* which entities the arena contains.
C34_CategoriesIsolated ==
    /\ [](ops < MaxOps =>
            \A c \in Cats, from, to \in Handles : \A d \in Cats \ {c} :
                /\ SameCategory(RelateIn(relations, c, from, to), d)
                /\ SameCategory(UnrelateIn(relations, c, from, to), d)
                /\ SameCategory(UnrelateAllIn(relations, c, from), d))
    /\ [][last'.op \in {"relate", "unrelate", "unrelate_all"} =>
            (nodes' = nodes /\ issued' = issued)]_vars

\* unrelate_all emptied a handle's outgoing set in one category while the
\* other category holds an edge that leaves the same handle
C34_Witness ==
    /\ last.op = "unrelate_all"
    /\ \E c \in DOMAIN relations, d \in DOMAIN relations, h \in Handles :
          /\ c # d
          /\ h \in DOMAIN relations[c].outgoing
          /\ relations[c].outgoing[h] = {}
          /\ RelationsIncomming(c, h) # {} \/ \E k \in Handles : h \in RelationsIncomming(c, k)
          /\ RelationsOutgoing(d, h) # {}

\* ------------------------------------------------------------------------
\* Registered categories
\* ------------------------------------------------------------------------
\* the categories that have a table
Registered == DOMAIN relations
\* from_graph needs the name of every category that has a table: with a
\* registry that lacks one of them it fails
SnapshotResolvesRegistered ==
    \A c \in Registered : \A r \in FromGraph(Names \ {c}, Types) :
        r.error = "CouldNotFindType"

\* C35 as stated: the set of registered categories changes only through relate
\* and relate_pair, which add their categories, and clear, which empties it;
\* lookups, unrelate, unrelate_pair, unrelate_all and remove never register a
\* category and never drop one.
C35_OnlyRelateRegisters ==
    [][/\ Registered' # Registered => last'.op \in {"relate", "relate_pair", "clear"}
       /\ last'.op # "clear" => Registered \subseteq Registered'
       /\ last'.op = "clear" => Registered' = {}]_vars

\* C35: the set of registered categories changes only through relate,
\* relate_pair, unrelate, unrelate_pair and unrelate_all, which all register
\* their categories on first use, and clear, which empties it; lookups and
\* remove never register a category and no call but clear drops one; a
\* snapshot has to resolve every category that has a table, also one that was
\* only unrelated.
C35_FirstUseRegisters ==
    /\ [][/\ Registered' # Registered =>
                last'.op \in {"relate", "relate_pair", "unrelate", "unrelate_pair",
                              "unrelate_all", "clear"}
          /\ last'.op # "clear" => Registered \subseteq Registered'
          /\ last'.op = "clear" => Registered' = {}
          /\ last'.op \in {"unrelate", "unrelate_pair", "unrelate_all"} =>
                Registered' # {}]_vars
    /\ []SnapshotResolvesRegistered

\* an unrelate registered a category whose table holds nothing, beside the
\* category that was related, and a snapshot has to resolve it
C35_Witness ==
    /\ last.op = "unrelate"
    /\ \E c \in Registered, d \in Registered :
          /\ relations[c] = EmptyTable
          /\ TableIter(relations[d]) # {}
          /\ \A r \in FromGraph(Names \ {c}, Types) : r.error = "CouldNotFindType"

\* ------------------------------------------------------------------------
\* Accessor exclusivity
\* ------------------------------------------------------------------------
\* the values the caller holds include a write accessor for h / a read
\* accessor for h
RECURSIVE Holds(_, _, _)
Holds(v, kind, h) ==
    CASE v.k \in {"read", "write"} -> v.k = kind /\ v.h = h
      [] v.k = "some" -> Holds(v.v, kind, h)
      [] v.k = "tuple" -> \E i \in 1..Len(v.vs) : Holds(v.vs[i], kind, h)
      [] OTHER -> FALSE
HeldBy(kind, h) == \E i \in 1..Len(qry.held) : Holds(qry.held[i], kind, h)

\* what a transform gives for h now, as the one item of its iterator
Gives(t, h) == Transform(t, h, locks).st.item

\* C36: while a write accessor for h that a query produced is held, a
\* typed-read or typed-write transform applied to h yields nothing and the
\* optional variants yield exactly one None; while only read accessors for h
\* are held, typed-read still yields an accessor and typed-write yields
\* nothing; the pull always returns.
C36_ExclusivityOmits ==
    /\ \A h \in nodes :
          LET T == TypeOf(h)
          IN  /\ HeldBy("write", h) =>
                    /\ Gives(TRead(T), h) = None
                    /\ Gives(TWrite(T), h) = None
                    /\ Gives(TOptRead(T), h) = Some(VNone)
                    /\ Gives(TOptWrite(T), h) = Some(VNone)
              /\ (HeldBy("read", h) /\ ~HeldBy("write", h)) =>
                    /\ Gives(TRead(T), h) = Some(VRead(h))
                    /\ Gives(TOptRead(T), h) = Some(VSome(VRead(h)))
                    /\ Gives(TWrite(T), h) = None
                    /\ Gives(TOptWrite(T), h) = Some(VNone)
              /\ \A t \in {TRead(T), TWrite(T), TOptRead(T), TOptWrite(T)} :
                    Transform(t, h, locks).st.k = "once"
    /\ qry.root # NoHandle => Fetch(qry.access, locks) # {}

\* the caller holds a pair of a read accessor and a write accessor for two
\* neighbours, and the pull after it, whose typed read reached the neighbour
\* that is held for writing, gave nothing and ended the query
C36_Witness ==
    /\ IsTupleQuery
    /\ qry.ended /\ qry.pulls = 2 /\ Len(qry.out) = 1
    /\ \E h1, h2 \in nodes :
          /\ h1 # h2
          /\ HeldBy("read", h1) /\ HeldBy("write", h2)
          /\ qry.fetch.fs[1].t = TRead(TypeOf(h2))
          /\ TypeOf(h1) = TypeOf(h2)

====
